---------------------------- MODULE Spec2Model ----------------------------
(***************************************************************************)
(* A model of the AMPL solver utilities of distcomp/dcbc:                  *)
(*   c_src/solvers/util/solver.cc   SignalHandler, BasicSolver,            *)
(*                                  internal::Format                       *)
(*   c_src/solvers/util/problem.h   Solution, Problem, ProblemChanges      *)
(* Strings are sequences of one-character strings, so that the character   *)
(* loops of the source are modelled as they are written.                   *)
(***************************************************************************)
EXTENDS Integers, Sequences, FiniteSets, TLC

(***************************************************************************)
(* Bounds of the model.                                                    *)
(***************************************************************************)
\* Number of SignalHandler constructions in one behaviour.
MaxCtor == 2
\* Number of SIGINT signals raised in one behaviour.
MaxSig == 2

(***************************************************************************)
(* Characters.                                                             *)
(***************************************************************************)
\* isspace of <cctype> in the "C" locale.
isspace(c) == c \in {" ", "\t", "\n", "\r", "\f"}

\* A byte read through a pointer that no longer designates live storage.
JUNK == "?"

VARIABLES
  \* ---- SignalHandler: the statics of solver.cc:133-139
  signal_message_,        \* std::string, the rendered message
  signal_message_ptr_,    \* "null", "cur" (the buffer of signal_message_) or "stale"
  signal_message_size_,   \* unsigned
  interruptible_,         \* "null" or an Interruptible
  stop_,                  \* volatile sig_atomic_t: 0 or 1
  \* ---- the process and the C library's signal state
  disposition,            \* of SIGINT: "SIG_DFL" or "HandleSigInt"
  resetOnDelivery,        \* implementation-defined: signal(sig, SIG_DFL) on delivery,
                          \* or sig blocked while its handler runs
  pending,                \* a blocked SIGINT waits for the handler to return
  proc,                   \* "running", "exited1" (_exit(1)), "killed" (default action)
  \* ---- the main path: position inside SignalHandler::SignalHandler
  ctorPc, ctorName, ctorI, nCtor,
  \* ---- the running HandleSigInt activation
  hPc, hCount, nSig,
  \* ---- observation of the handler and of the writes (history)
  hEntryStop,             \* stop_ when the activation started, -1 when none yet
  hLog,                   \* what the activation did, in order
  hOut,                   \* the bytes the activation wrote to descriptor 1
  interrupts,             \* calls of Interruptible::Interrupt so far
  written,                \* the last step and the handler-visible data it wrote
  writers,                \* who has written each handler-visible datum
  \* ---- BasicSolver (solver.cc:187-386)
  has_errors_,            \* bool
  show_version,           \* Option_Info::flags & ASL_OI_show_version
  wantsol,                \* Option_Info::wantsol
  read_time_,             \* double, in clock ticks
  \* ---- the running ParseOptionString activation
  entry,                  \* the member function called from outside, "none" if none
  pc,                     \* where the main path of the solver is
  str,                    \* the option string, a sequence of characters
  pos,                    \* s, as an index into str (Len(str) + 1 is the NUL)
  skip,                   \* bool skip
  noEcho,                 \* flags & NO_OPTION_ECHO
  \* ---- the running ParseOptions / ProcessArgs / Run activation
  stub,                   \* what getstub_ASL returns: "null" or "stub"
  env,                    \* getenv(opname): {} for null, or {the option string}
  argv,                   \* the arguments after the stub, each an option string
  argi,                   \* the index of the next argument (argv++)
  start_time,             \* double start_time of Run
  clock,                  \* what xectim_() returns now
  \* ---- observation of the call (history, cleared when a call starts)
  ret,                    \* how Run was left: "none", "0", "1" or "threw"
  poResult,               \* what ParseOptions returned: "none", "true" or "false"
  problemRead,            \* problem_.Read(stub) was called
  parsed,                 \* the option strings parsed to their end, in order
  solveLog,               \* the calls of Solve, with the read time each one saw
  loadTicks,              \* clock ticks from the start of Run to the end of ProcessArgs
  okRun,                  \* a Run whose ProcessArgs succeeded has been left
  \* ---- Problem: the counts of the ASL structure and the members of
  \* problem.h:115-121
  n_var_,                 \* asl_->i.n_var_, num_vars()
  niv_,                   \* the integer variables counted by num_integer_vars()
  n_obj_,                 \* asl_->i.n_obj_, num_objs()
  n_lcon_,                \* asl_->i.n_lcon_, num_logical_cons()
  var_capacity_,          \* int
  obj_capacity_,          \* int
  logical_con_capacity_,  \* int
  LUv_,                   \* asl_->i.LUv_: the array of lower bounds
  Uvx_,                   \* asl_->i.Uvx_: the array of upper bounds
  var_types_,             \* VarType *: {} for null, or {the array}
  \* ---- observation of the Problem (history)
  loaded,                 \* Read(stub) has populated the problem
  addLog,                 \* the bounds passed by the AddVar calls that returned
  last,                   \* the last structural append and how it ended
  \* ---- ProblemChanges (problem.h:293-295)
  problem_,               \* const Problem *: "null" before construction
  var_lb_,                \* std::vector<double>
  var_ub_,                \* std::vector<double>
  \* ---- observation of the ProblemChanges (history)
  pcBase,                 \* num_vars() of the problem at construction
  pcReturned,             \* what the AddVar calls returned, in order
  \* ---- Solution (problem.h:44)
  solve_code_,            \* int
  statusSeen,             \* what the last call of status() returned, or "none"
  \* ---- internal::Format (solver.cc:57-100)
  text,                   \* the argument s
  start_indent,           \* the argument indent
  os,                     \* the string returned
  starts,                 \* where the output lines were started, in order
  fpc,                    \* "call" before the call, "done" after it, or "idle"
  iter,                   \* what the last pass of the loop did
  errors,                 \* the errors reported, in order
  out,                    \* the lines written to stdout, in order
  sets                    \* the SetValue calls made, in order

sigVars == <<signal_message_, signal_message_ptr_, signal_message_size_,
             interruptible_, stop_, disposition, resetOnDelivery, pending, proc,
             ctorPc, ctorName, ctorI, nCtor, hPc, hCount, nSig,
             hEntryStop, hLog, hOut, interrupts, written, writers>>

solverVars == <<has_errors_, show_version, wantsol, read_time_>>

parseVars == <<entry, pc, str, pos, skip, noEcho, iter, errors, out, sets>>

runVars == <<stub, env, argv, argi, start_time, clock, ret, poResult,
             problemRead, parsed, solveLog, loadTicks, okRun>>

problemVars == <<n_var_, niv_, n_obj_, n_lcon_, var_capacity_, obj_capacity_,
                 logical_con_capacity_, LUv_, Uvx_, var_types_, loaded, addLog,
                 last>>

changesVars == <<problem_, var_lb_, var_ub_, pcBase, pcReturned>>

solutionVars == <<solve_code_, statusSeen>>

formatVars == <<text, start_indent, os, starts, fpc>>

dataVars == <<problemVars, changesVars, solutionVars, formatVars>>

vars == <<sigVars, solverVars, parseVars, runVars, dataVars>>

\* What iter holds before the first pass of a parse.
NoIter == [branch |-> "none", name |-> <<>>, from |-> 0, to |-> 0,
           equal_sign |-> FALSE, skip0 |-> FALSE, errors0 |-> 0, out0 |-> 0,
           wantsol0 |-> 0, version0 |-> FALSE]

\* solver.cc:187-189, 195-197  BasicSolver::BasicSolver: has_errors_(false) and
\* a zeroed Option_Info.
BasicSolverCtor ==
  /\ has_errors_ = FALSE
  /\ show_version = FALSE
  /\ wantsol = 0

\* No member function of the solver is running.
InitParse ==
  /\ entry = "none" /\ pc = "idle"
  /\ str = <<>> /\ pos = 1 /\ skip = FALSE /\ noEcho = FALSE
  /\ iter = NoIter /\ errors = <<>> /\ out = <<>> /\ sets = <<>>
  /\ stub = "null" /\ env = {} /\ argv = <<>> /\ argi = 1
  /\ start_time = 0 /\ clock = 0
  /\ ret = "none" /\ poResult = "none" /\ problemRead = FALSE
  /\ parsed = <<>> /\ solveLog = <<>> /\ loadTicks = 0 /\ okRun = FALSE

\* What last holds before the first structural append.
NoAppend == [op |-> "none", threw |-> FALSE, grew |-> FALSE,
             size |-> 0, capacity |-> 0, capacity1 |-> 0]

\* Problem::Problem() (problem.h:147): an empty problem, nothing allocated.
InitProblem ==
  /\ n_var_ = 0 /\ niv_ = 0 /\ n_obj_ = 0 /\ n_lcon_ = 0
  /\ var_capacity_ = 0 /\ obj_capacity_ = 0 /\ logical_con_capacity_ = 0
  /\ LUv_ = <<>> /\ Uvx_ = <<>> /\ var_types_ = {}
  /\ loaded = FALSE /\ addLog = <<>> /\ last = NoAppend

\* No ProblemChanges has been constructed.
InitChanges ==
  /\ problem_ = "null" /\ var_lb_ = <<>> /\ var_ub_ = <<>>
  /\ pcBase = 0 /\ pcReturned = <<>>

\* Solution::Solution() (problem.h:62-64): the solve code is -1.
InitSolution ==
  /\ solve_code_ = -1 /\ statusSeen = "none"

\* No call of internal::Format is made.
InitFormat ==
  /\ text = <<>> /\ start_indent = 0
  /\ os = <<>> /\ starts = <<>> /\ fpc = "idle"

InitData == InitProblem /\ InitChanges /\ InitSolution /\ InitFormat

(***************************************************************************)
(* SignalHandler                                                           *)
(***************************************************************************)
\* The solver names a handler is constructed for (BasicSolver::name()).
SolverNames == {<<"a">>, <<"b", "c">>}

\* The Interruptible pointers a handler is constructed with.
Interruptibles == {"null", "i1"}

\* fmt::Format("\n<BREAK> ({})\n") << s.name()
BreakMessage(name) ==
  <<"\n", "<", "B", "R", "E", "A", "K", ">", " ", "(">> \o name \o <<")", "\n">>

SigData == {"signal_message_", "signal_message_ptr_", "signal_message_size_",
            "interruptible_", "stop_"}

NoWrite == [step |-> "Init", fields |-> {}, by |-> "none", installed |-> FALSE]

\* The record of one step: its name, the handler-visible data it stores to,
\* who runs it, and whether HandleSigInt is installed when it runs.
Step(name, fields, who) ==
  /\ written' = [step |-> name, fields |-> fields, by |-> who,
                 installed |-> disposition = "HandleSigInt"]
  /\ writers' = [d \in SigData |->
                   IF d \in fields THEN writers[d] \cup {who} ELSE writers[d]]
  /\ UNCHANGED <<solverVars, parseVars, runVars, dataVars>>

MainCanRun == proc = "running" /\ hPc = "none" /\ ~pending

\* The statics of SignalHandler before any construction.
InitStatics ==
  /\ signal_message_ = <<>>
  /\ signal_message_ptr_ = "null"
  /\ signal_message_size_ = 0
  /\ interruptible_ = "null"
  /\ stop_ = 1
  /\ disposition = "SIG_DFL"
  /\ pending = FALSE
  /\ proc = "running"
  /\ ctorPc = "idle" /\ ctorName = <<>> /\ ctorI = "null" /\ nCtor = 0
  /\ hPc = "none" /\ hCount = 0 /\ nSig = 0
  /\ hEntryStop = -1 /\ hLog = <<>> /\ hOut = <<>>
  /\ interrupts = 0
  /\ written = NoWrite
  /\ writers = [d \in SigData |-> {}]

\* solver.cc:142  signal_message_ = str(fmt::Format(...) << s.name());
\* The assignment may release the buffer signal_message_ptr_ points into.
CtorMessage ==
  /\ MainCanRun /\ ctorPc = "idle" /\ nCtor < MaxCtor
  /\ \E name \in SolverNames, i \in Interruptibles, moved \in BOOLEAN :
       /\ ctorName' = name /\ ctorI' = i
       /\ signal_message_' = BreakMessage(name)
       /\ signal_message_ptr_' =
            IF signal_message_ptr_ = "cur" /\ moved THEN "stale"
            ELSE signal_message_ptr_
  /\ nCtor' = nCtor + 1
  /\ ctorPc' = "l143"
  /\ Step("CtorMessage", {"signal_message_"}, "main")
  /\ UNCHANGED <<signal_message_size_, interruptible_, stop_, disposition,
                 resetOnDelivery, pending, proc, hPc, hCount, nSig,
                 hEntryStop, hLog, hOut, interrupts>>

\* solver.cc:143  signal_message_ptr_ = signal_message_.c_str();
CtorPtr ==
  /\ MainCanRun /\ ctorPc = "l143"
  /\ signal_message_ptr_' = "cur"
  /\ ctorPc' = "l144"
  /\ Step("CtorPtr", {"signal_message_ptr_"}, "main")
  /\ UNCHANGED <<signal_message_, signal_message_size_, interruptible_, stop_,
                 disposition, resetOnDelivery, pending, proc, ctorName, ctorI,
                 nCtor, hPc, hCount, nSig, hEntryStop, hLog, hOut, interrupts>>

\* solver.cc:144  signal_message_size_ = signal_message_.size();
CtorSize ==
  /\ MainCanRun /\ ctorPc = "l144"
  /\ signal_message_size_' = Len(signal_message_)
  /\ ctorPc' = "l145"
  /\ Step("CtorSize", {"signal_message_size_"}, "main")
  /\ UNCHANGED <<signal_message_, signal_message_ptr_, interruptible_, stop_,
                 disposition, resetOnDelivery, pending, proc, ctorName, ctorI,
                 nCtor, hPc, hCount, nSig, hEntryStop, hLog, hOut, interrupts>>

\* solver.cc:145  interruptible_ = i;
CtorInterruptible ==
  /\ MainCanRun /\ ctorPc = "l145"
  /\ interruptible_' = ctorI
  /\ ctorPc' = "l146"
  /\ Step("CtorInterruptible", {"interruptible_"}, "main")
  /\ UNCHANGED <<signal_message_, signal_message_ptr_, signal_message_size_,
                 stop_, disposition, resetOnDelivery, pending, proc, ctorName,
                 ctorI, nCtor, hPc, hCount, nSig, hEntryStop, hLog, hOut,
                 interrupts>>

\* solver.cc:146  stop_ = 0;
CtorStop ==
  /\ MainCanRun /\ ctorPc = "l146"
  /\ stop_' = 0
  /\ ctorPc' = "l147"
  /\ Step("CtorStop", {"stop_"}, "main")
  /\ UNCHANGED <<signal_message_, signal_message_ptr_, signal_message_size_,
                 interruptible_, disposition, resetOnDelivery, pending, proc,
                 ctorName, ctorI, nCtor, hPc, hCount, nSig, hEntryStop, hLog,
                 hOut, interrupts>>

\* solver.cc:147  std::signal(SIGINT, HandleSigInt);
CtorSignal ==
  /\ MainCanRun /\ ctorPc = "l147"
  /\ disposition' = "HandleSigInt"
  /\ ctorPc' = "idle"
  /\ Step("CtorSignal", {}, "main")
  /\ UNCHANGED <<signal_message_, signal_message_ptr_, signal_message_size_,
                 interruptible_, stop_, resetOnDelivery, pending, proc,
                 ctorName, ctorI, nCtor, hPc, hCount, nSig, hEntryStop, hLog,
                 hOut, interrupts>>

\* HandleSigInt is entered (solver.cc:150-151  unsigned count = 0;).
EnterHandler ==
  /\ hPc' = "write"
  /\ hCount' = 0
  /\ hEntryStop' = stop_
  /\ hLog' = <<>>
  /\ hOut' = <<>>
  /\ disposition' = IF resetOnDelivery THEN "SIG_DFL" ELSE disposition

\* A SIGINT is raised against the process, at any point of the main path or
\* of a running handler (ISO C 7.14.1.1: on delivery either the disposition is
\* reset to SIG_DFL or the signal is blocked until the handler returns).
RaiseSigInt ==
  /\ proc = "running" /\ nSig < MaxSig /\ ~pending
  /\ nSig' = nSig + 1
  /\ Step("RaiseSigInt", {}, "os")
  /\ IF disposition = "SIG_DFL"
       THEN /\ proc' = "killed"
            /\ UNCHANGED <<hPc, hCount, hEntryStop, hLog, hOut, disposition, pending>>
       ELSE IF hPc # "none"
              THEN /\ pending' = TRUE
                   /\ UNCHANGED <<hPc, hCount, hEntryStop, hLog, hOut,
                                  disposition, proc>>
              ELSE /\ EnterHandler
                   /\ UNCHANGED <<pending, proc>>
  /\ UNCHANGED <<signal_message_, signal_message_ptr_, signal_message_size_,
                 interruptible_, stop_, resetOnDelivery, ctorPc, ctorName,
                 ctorI, nCtor, interrupts>>

\* The blocked SIGINT is delivered when the handler has returned.
DeliverPending ==
  /\ proc = "running" /\ pending /\ hPc = "none"
  /\ pending' = FALSE
  /\ Step("DeliverPending", {}, "os")
  /\ IF disposition = "SIG_DFL"
       THEN /\ proc' = "killed"
            /\ UNCHANGED <<hPc, hCount, hEntryStop, hLog, hOut, disposition>>
       ELSE /\ EnterHandler
            /\ UNCHANGED proc
  /\ UNCHANGED <<signal_message_, signal_message_ptr_, signal_message_size_,
                 interruptible_, stop_, resetOnDelivery, ctorPc, ctorName,
                 ctorI, nCtor, nSig, interrupts>>

\* The byte at signal_message_ptr_ + k (k from 0).
MessageByte(k) ==
  IF signal_message_ptr_ = "cur" /\ k < Len(signal_message_)
    THEN signal_message_[k + 1]
    ELSE JUNK

\* The results write(1, buf, n) can report: an error, or the number of bytes
\* it took (at least one of n > 0).
WriteResults(n) == {-1} \cup (IF n = 0 THEN {0} ELSE 1..n)

\* HandlerWrite without the loop: one call of write, whatever it took.
HandlerWrite_Once ==
  /\ proc = "running" /\ hPc = "write"
  /\ \E result \in WriteResults(signal_message_size_ - hCount) :
       IF result < 0
         THEN /\ hPc' = "test"
              /\ hLog' = Append(hLog, "write_error")
              /\ UNCHANGED <<hCount, hOut>>
         ELSE /\ hCount' = hCount + result
              /\ hOut' = hOut \o [k \in 1..result |-> MessageByte(hCount + k - 1)]
              /\ hPc' = "test" /\ hLog' = Append(hLog, "written")
  /\ Step("HandlerWrite", {}, "handler")
  /\ UNCHANGED <<signal_message_, signal_message_ptr_, signal_message_size_,
                 interruptible_, stop_, disposition, resetOnDelivery, pending,
                 proc, ctorPc, ctorName, ctorI, nCtor, nSig, hEntryStop,
                 interrupts>>

\* solver.cc:152-158  one pass of the do-while loop around AMPL_WRITE.
HandlerWrite ==
  /\ proc = "running" /\ hPc = "write"
  /\ \E result \in WriteResults(signal_message_size_ - hCount) :
       IF result < 0
         THEN /\ hPc' = "test"
              /\ hLog' = Append(hLog, "write_error")
              /\ UNCHANGED <<hCount, hOut>>
         ELSE /\ hCount' = hCount + result
              /\ hOut' = hOut \o [k \in 1..result |-> MessageByte(hCount + k - 1)]
              /\ IF hCount + result < signal_message_size_
                   THEN hPc' = "write" /\ UNCHANGED hLog
                   ELSE hPc' = "test" /\ hLog' = Append(hLog, "written")
  /\ Step("HandlerWrite", {}, "handler")
  /\ UNCHANGED <<signal_message_, signal_message_ptr_, signal_message_size_,
                 interruptible_, stop_, disposition, resetOnDelivery, pending,
                 proc, ctorPc, ctorName, ctorI, nCtor, nSig, hEntryStop,
                 interrupts>>

\* HandlerTestStop without the test of stop_: the handler never exits.
HandlerTestStop_NoExit ==
  /\ proc = "running" /\ hPc = "test"
  /\ hPc' = "set"
  /\ Step("HandlerTestStop", {}, "handler")
  /\ UNCHANGED <<signal_message_, signal_message_ptr_, signal_message_size_,
                 interruptible_, stop_, disposition, resetOnDelivery, pending,
                 ctorPc, ctorName, ctorI, nCtor, hCount, nSig, hEntryStop,
                 hOut, interrupts, proc, hLog>>

\* solver.cc:159-162  if (stop_) _exit(1);
HandlerTestStop ==
  /\ proc = "running" /\ hPc = "test"
  /\ IF stop_ # 0
       THEN /\ proc' = "exited1"
            /\ hPc' = "none"
            /\ hLog' = Append(hLog, "_exit")
       ELSE /\ hPc' = "set"
            /\ UNCHANGED <<proc, hLog>>
  /\ Step("HandlerTestStop", {}, "handler")
  /\ UNCHANGED <<signal_message_, signal_message_ptr_, signal_message_size_,
                 interruptible_, stop_, disposition, resetOnDelivery, pending,
                 ctorPc, ctorName, ctorI, nCtor, hCount, nSig, hEntryStop,
                 hOut, interrupts>>

\* HandlerSetStop without the store to stop_.
HandlerSetStop_NoStore ==
  /\ proc = "running" /\ hPc = "set"
  /\ hPc' = "interrupt"
  /\ hLog' = Append(hLog, "stop")
  /\ Step("HandlerSetStop", {}, "handler")
  /\ UNCHANGED <<signal_message_, signal_message_ptr_, signal_message_size_,
                 interruptible_, disposition, resetOnDelivery, pending, proc,
                 ctorPc, ctorName, ctorI, nCtor, hCount, nSig, hEntryStop,
                 hOut, interrupts, stop_>>

\* solver.cc:163  stop_ = 1;
HandlerSetStop ==
  /\ proc = "running" /\ hPc = "set"
  /\ stop_' = 1
  /\ hPc' = "interrupt"
  /\ hLog' = Append(hLog, "stop")
  /\ Step("HandlerSetStop", {"stop_"}, "handler")
  /\ UNCHANGED <<signal_message_, signal_message_ptr_, signal_message_size_,
                 interruptible_, disposition, resetOnDelivery, pending, proc,
                 ctorPc, ctorName, ctorI, nCtor, hCount, nSig, hEntryStop,
                 hOut, interrupts>>

\* solver.cc:164-165  if (interruptible_) interruptible_->Interrupt();
HandlerInterrupt ==
  /\ proc = "running" /\ hPc = "interrupt"
  /\ IF interruptible_ # "null"
       THEN /\ interrupts' = interrupts + 1
            /\ hLog' = Append(hLog, "Interrupt")
       ELSE UNCHANGED <<interrupts, hLog>>
  /\ hPc' = "signal"
  /\ Step("HandlerInterrupt", {}, "handler")
  /\ UNCHANGED <<signal_message_, signal_message_ptr_, signal_message_size_,
                 interruptible_, stop_, disposition, resetOnDelivery, pending,
                 proc, ctorPc, ctorName, ctorI, nCtor, hCount, nSig,
                 hEntryStop, hOut>>

\* solver.cc:168  std::signal(sig, HandleSigInt); and the handler returns.
HandlerSignal ==
  /\ proc = "running" /\ hPc = "signal"
  /\ disposition' = "HandleSigInt"
  /\ hPc' = "none"
  /\ hLog' = Append(hLog, "signal")
  /\ Step("HandlerSignal", {}, "handler")
  /\ UNCHANGED <<signal_message_, signal_message_ptr_, signal_message_size_,
                 interruptible_, stop_, resetOnDelivery, pending, proc, ctorPc,
                 ctorName, ctorI, nCtor, hCount, nSig, hEntryStop, hOut,
                 interrupts>>

\* void SignalHandler::HandleSigInt(int sig), one step of it.
HandleSigInt ==
  \/ HandlerWrite
  \/ HandlerTestStop
  \/ HandlerSetStop
  \/ HandlerInterrupt
  \/ HandlerSignal

\* SignalHandler::SignalHandler(const BasicSolver &s, Interruptible *i), one
\* statement of it.
SignalHandlerCtor ==
  \/ CtorMessage
  \/ CtorPtr
  \/ CtorSize
  \/ CtorInterruptible
  \/ CtorStop
  \/ CtorSignal

InitSignal ==
  /\ InitStatics
  /\ resetOnDelivery \in BOOLEAN
  /\ BasicSolverCtor /\ read_time_ = 0
  /\ InitParse /\ InitData

NextSignal ==
  \/ SignalHandlerCtor
  \/ RaiseSigInt
  \/ DeliverPending
  \/ HandleSigInt

SpecSignal == InitSignal /\ [][NextSignal]_vars


(***************************************************************************)
(* Strings                                                                 *)
(***************************************************************************)
\* The terminating NUL of a C string.
NUL == ""

\* *(s + p - 1): the character of the C string s at index p.
CharAt(s, p) == IF p <= Len(s) THEN s[p] ELSE NUL

Upper == <<"A", "B", "C", "D", "E", "F", "G", "H", "I", "J", "K", "L", "M",
           "N", "O", "P", "Q", "R", "S", "T", "U", "V", "W", "X", "Y", "Z">>
Lower == <<"a", "b", "c", "d", "e", "f", "g", "h", "i", "j", "k", "l", "m",
           "n", "o", "p", "q", "r", "s", "t", "u", "v", "w", "x", "y", "z">>

\* std::tolower in the "C" locale.
LowerOf == [c \in {Upper[k] : k \in 1..26} |->
              Lower[CHOOSE k \in 1..26 : Upper[k] = c]]
tolower(c) == IF c \in DOMAIN LowerOf THEN LowerOf[c] ELSE c

Digits == <<"0", "1", "2", "3", "4", "5", "6", "7", "8", "9">>
ValueOf == [c \in {Digits[k] : k \in 1..10} |->
              (CHOOSE k \in 1..10 : Digits[k] = c) - 1]
isdigit(c) == c \in DOMAIN ValueOf
DigitValue(c) == ValueOf[c]

\* solver.cc:41-45  SkipSpaces
RECURSIVE SkipSpaces(_, _)
SkipSpaces(s, p) ==
  IF CharAt(s, p) # NUL /\ isspace(CharAt(s, p)) THEN SkipSpaces(s, p + 1) ELSE p

\* solver.cc:47-51  SkipNonSpaces
RECURSIVE SkipNonSpaces(_, _)
SkipNonSpaces(s, p) ==
  IF CharAt(s, p) # NUL /\ ~isspace(CharAt(s, p)) THEN SkipNonSpaces(s, p + 1) ELSE p

\* solver.cc:285-286  while (*s && !std::isspace(*s) && *s != '=') ++s;
RECURSIVE SkipName(_, _)
SkipName(s, p) ==
  IF CharAt(s, p) # NUL /\ ~isspace(CharAt(s, p)) /\ CharAt(s, p) # "="
    THEN SkipName(s, p + 1)
    ELSE p

\* solver.cc:287-291  the name, lower-cased: characters p..q-1 of s.
LowerName(s, p, q) == [k \in 1..(q - p) |-> tolower(s[p + k - 1])]

\* The end of the digits that start at p.
RECURSIVE SkipDigits(_, _)
SkipDigits(s, p) == IF isdigit(CharAt(s, p)) THEN SkipDigits(s, p + 1) ELSE p

\* The value of the decimal digits p..q-1 of s.
RECURSIVE DigitsValue(_, _, _)
DigitsValue(s, p, q) ==
  IF q <= p THEN 0 ELSE 10 * DigitsValue(s, p, q - 1) + DigitValue(s[q - 1])

\* strtol converting the first digit only, the end still after the last one.
StrToL_FirstDigit(s, p) ==
  LET b == SkipSpaces(s, p)
      d == IF CharAt(s, b) \in {"+", "-"} THEN b + 1 ELSE b
      e == SkipDigits(s, d)
      v == DigitsValue(s, d, d + 1)
  IN IF e = d THEN [value |-> 0, end |-> p]
     ELSE [value |-> IF CharAt(s, b) = "-" THEN -v ELSE v, end |-> e]

\* solver.cc:106-111  OptionHelper<int>::Parse: strtol(s, &end, 10); s = end.
\* White space and one sign are skipped; without a digit nothing is converted,
\* the value is 0 and end is the start.
StrToL(s, p) ==
  LET b == SkipSpaces(s, p)
      d == IF CharAt(s, b) \in {"+", "-"} THEN b + 1 ELSE b
      e == SkipDigits(s, d)
      v == DigitsValue(s, d, e)
  IN IF e = d THEN [value |-> 0, end |-> p]
     ELSE [value |-> IF CharAt(s, b) = "-" THEN -v ELSE v, end |-> e]

\* The decimal rendering of a natural number.
RECURSIVE NatStr(_)
NatStr(n) == IF n < 10 THEN <<Digits[n + 1]>>
             ELSE Append(NatStr(n \div 10), Digits[(n % 10) + 1])

\* fmt's rendering of an int ("{}").
IntStr(n) == IF n < 0 THEN <<"-">> \o NatStr(-n) ELSE NatStr(n)


(***************************************************************************)
(* BasicSolver: the option registry and ParseOptionString                  *)
(***************************************************************************)
sVersion == <<"v", "e", "r", "s", "i", "o", "n">>
sWantsol == <<"w", "a", "n", "t", "s", "o", "l">>
sBar == <<"b", "a", "r">>

\* solver.cc:225, 240  the options the constructor registers (options_).
Registered == {sVersion, sWantsol}

\* solver.cc:214-216  VersionOption is a keyword option (is_keyword() is true);
\* solver.cc:229  WantSolOption is a TypedSolverOption<int>.
is_keyword(name) == name = sVersion

\* solver.cc:283-299  the name and the '=' of the token at p.
Scan(s, p) ==
  LET name_start == SkipSpaces(s, p)
      name_end == SkipName(s, name_start)
      q == SkipSpaces(s, name_end)
      eq == CharAt(s, q) = "="
  IN [name_start |-> name_start,
      name |-> LowerName(s, name_start, name_end),
      equal_sign |-> eq,
      s |-> IF eq THEN SkipSpaces(s, q + 1) ELSE q]

\* solver.cc:321-323  the value is "?" followed by white space or the end.
IsQuery(s, p) ==
  /\ CharAt(s, p) = "?"
  /\ CharAt(s, p + 1) = NUL \/ isspace(CharAt(s, p + 1))

\* solver.cc:218-220  VersionOption::Format
\* TypedSolverOption<int>::Format (solver.h): the value GetValue() returns
\* (solver.cc:237), rendered by "{}".
Format(name) ==
  IF name = sVersion THEN (IF show_version THEN <<"1">> ELSE <<"0">>)
  ELSE IntStr(wantsol)

\* TypedSolverOption<int>::Parse (solver.h): the value is read by
\* OptionHelper<int>::Parse; text left before the next white space makes the
\* value invalid: the rest of the token is skipped and OptionError is thrown.
TypedParse(s, p) ==
  LET r == StrToL(s, p)
      bad == CharAt(s, r.end) # NUL /\ ~isspace(CharAt(s, r.end))
  IN [ok |-> ~bad,
      value |-> r.value,
      s |-> IF bad THEN SkipNonSpaces(s, r.end) ELSE r.end]

\* ReportError (solver.h): the error is printed and has_errors_ is set.
ReportError(kind, name) ==
  /\ has_errors_' = TRUE
  /\ errors' = Append(errors, [kind |-> kind, name |-> name])

\* The record of one pass of the loop of ParseOptionString.
Pass(branch, sc, to) ==
  iter' = [branch |-> branch, name |-> sc.name, from |-> pos, to |-> to,
           equal_sign |-> sc.equal_sign, skip0 |-> skip,
           errors0 |-> Len(errors), out0 |-> Len(out),
           wantsol0 |-> wantsol, version0 |-> show_version]

\* solver.cc:280-281  if (!*(s = SkipSpaces(s))) return;
ParseReturn ==
  /\ pc = "parse"
  /\ CharAt(str, SkipSpaces(str, pos)) = NUL
  /\ pos' = SkipSpaces(str, pos)
  /\ pc' = IF entry = "ParseOptionString" THEN "done" ELSE "next_arg"
  /\ UNCHANGED entry
  /\ Pass("return", [name |-> <<>>, equal_sign |-> FALSE], SkipSpaces(str, pos))
  /\ parsed' = Append(parsed, str)
  /\ UNCHANGED <<str, skip, noEcho, errors, out, sets>>
  /\ UNCHANGED <<dataVars, sigVars, solverVars>>
  /\ UNCHANGED <<stub, env, argv, argi, start_time, clock, ret, poResult,
                 problemRead, solveLog, loadTicks, okRun>>

\* ParseUnknown taking the token after a bare unknown name as its value.
ParseUnknown_TakesValue ==
  /\ pc = "parse"
  /\ CharAt(str, SkipSpaces(str, pos)) # NUL
  /\ LET sc == Scan(str, pos) IN
       /\ sc.name \notin Registered
       /\ IF ~skip
            THEN ReportError("Unknown option", sc.name)
            ELSE UNCHANGED <<has_errors_, errors>>
       /\ pos' = SkipNonSpaces(str, sc.s)
       /\ UNCHANGED skip
       /\ Pass("unknown", sc, SkipNonSpaces(str, sc.s))
  /\ UNCHANGED <<entry, pc, str, noEcho, out, sets>>
  /\ UNCHANGED <<dataVars, sigVars, show_version, wantsol, read_time_, runVars>>

\* ParseUnknown going to the next pass without consuming a name that has no
\* '=' after it.
ParseUnknown_Stuck ==
  /\ pc = "parse"
  /\ CharAt(str, SkipSpaces(str, pos)) # NUL
  /\ LET sc == Scan(str, pos) IN
       /\ sc.name \notin Registered
       /\ IF ~skip
            THEN ReportError("Unknown option", sc.name)
            ELSE UNCHANGED <<has_errors_, errors>>
       /\ IF sc.equal_sign
            THEN /\ pos' = SkipNonSpaces(str, sc.s)
                 /\ UNCHANGED skip
                 /\ Pass("unknown", sc, SkipNonSpaces(str, sc.s))
            ELSE /\ pos' = pos
                 /\ skip' = TRUE
                 /\ Pass("unknown", sc, pos)
  /\ UNCHANGED <<entry, pc, str, noEcho, out, sets>>
  /\ UNCHANGED <<dataVars, sigVars, show_version, wantsol, read_time_, runVars>>

\* ParseUnknown where an unregistered name with '=' ends skip mode.
ParseUnknown_EqualEndsSkip ==
  /\ pc = "parse"
  /\ CharAt(str, SkipSpaces(str, pos)) # NUL
  /\ LET sc == Scan(str, pos) IN
       /\ sc.name \notin Registered
       /\ IF ~skip
            THEN ReportError("Unknown option", sc.name)
            ELSE UNCHANGED <<has_errors_, errors>>
       /\ IF sc.equal_sign
            THEN /\ pos' = SkipNonSpaces(str, sc.s)
                 /\ skip' = FALSE
                 /\ Pass("unknown", sc, SkipNonSpaces(str, sc.s))
            ELSE /\ pos' = sc.s
                 /\ skip' = TRUE
                 /\ Pass("unknown", sc, sc.s)
  /\ UNCHANGED <<entry, pc, str, noEcho, out, sets>>
  /\ UNCHANGED <<dataVars, sigVars, show_version, wantsol, read_time_, runVars>>

\* solver.cc:303-317  the name is not registered.
ParseUnknown ==
  /\ pc = "parse"
  /\ CharAt(str, SkipSpaces(str, pos)) # NUL
  /\ LET sc == Scan(str, pos) IN
       /\ sc.name \notin Registered
       /\ IF ~skip
            THEN ReportError("Unknown option", sc.name)
            ELSE UNCHANGED <<has_errors_, errors>>
       /\ IF sc.equal_sign
            THEN /\ pos' = SkipNonSpaces(str, sc.s)
                 /\ UNCHANGED skip
                 /\ Pass("unknown", sc, SkipNonSpaces(str, sc.s))
            ELSE /\ pos' = sc.s
                 /\ skip' = TRUE
                 /\ Pass("unknown", sc, sc.s)
  /\ UNCHANGED <<entry, pc, str, noEcho, out, sets>>
  /\ UNCHANGED <<dataVars, sigVars, show_version, wantsol, read_time_, runVars>>

\* ParseQuery with the test of NO_OPTION_ECHO inverted.
ParseQuery_EchoInverted ==
  /\ pc = "parse"
  /\ CharAt(str, SkipSpaces(str, pos)) # NUL
  /\ LET sc == Scan(str, pos) IN
       /\ sc.name \in Registered
       /\ IsQuery(str, sc.s)
       /\ skip' = FALSE
       /\ pos' = sc.s + 1
       /\ out' = IF noEcho
                   THEN Append(out, sc.name \o <<"=">> \o Format(sc.name))
                   ELSE out
       /\ Pass("query", sc, sc.s + 1)
  /\ UNCHANGED <<entry, pc, str, noEcho, errors, sets>>
  /\ UNCHANGED <<dataVars, sigVars, solverVars, runVars>>

\* solver.cc:319-332  a registered name followed by "?": the value is echoed.
ParseQuery ==
  /\ pc = "parse"
  /\ CharAt(str, SkipSpaces(str, pos)) # NUL
  /\ LET sc == Scan(str, pos) IN
       /\ sc.name \in Registered
       /\ IsQuery(str, sc.s)
       /\ skip' = FALSE
       /\ pos' = sc.s + 1
       /\ out' = IF ~noEcho
                   THEN Append(out, sc.name \o <<"=">> \o Format(sc.name))
                   ELSE out
       /\ Pass("query", sc, sc.s + 1)
  /\ UNCHANGED <<entry, pc, str, noEcho, errors, sets>>
  /\ UNCHANGED <<dataVars, sigVars, solverVars, runVars>>

\* ParseKeywordArgument without s = SkipNonSpaces(s): the value stays.
ParseKeywordArgument_KeepsValue ==
  /\ pc = "parse"
  /\ CharAt(str, SkipSpaces(str, pos)) # NUL
  /\ LET sc == Scan(str, pos) IN
       /\ sc.name \in Registered
       /\ ~IsQuery(str, sc.s)
       /\ is_keyword(sc.name) /\ sc.equal_sign
       /\ skip' = FALSE
       /\ ReportError("doesn't accept argument", sc.name)
       /\ pos' = sc.s
       /\ Pass("keyword_argument", sc, sc.s)
  /\ UNCHANGED <<entry, pc, str, noEcho, out, sets>>
  /\ UNCHANGED <<dataVars, sigVars, show_version, wantsol, read_time_, runVars>>

\* solver.cc:334-338  a keyword option written with '='.
ParseKeywordArgument ==
  /\ pc = "parse"
  /\ CharAt(str, SkipSpaces(str, pos)) # NUL
  /\ LET sc == Scan(str, pos) IN
       /\ sc.name \in Registered
       /\ ~IsQuery(str, sc.s)
       /\ is_keyword(sc.name) /\ sc.equal_sign
       /\ skip' = FALSE
       /\ ReportError("doesn't accept argument", sc.name)
       /\ pos' = SkipNonSpaces(str, sc.s)
       /\ Pass("keyword_argument", sc, SkipNonSpaces(str, sc.s))
  /\ UNCHANGED <<entry, pc, str, noEcho, out, sets>>
  /\ UNCHANGED <<dataVars, sigVars, show_version, wantsol, read_time_, runVars>>

\* solver.cc:339-345  opt->Parse(s), OptionError caught and reported, and the
\* echo of the text from name_start to s.
\* solver.cc:221-223  VersionOption::Parse sets ASL_OI_show_version;
\* solver.cc:238  WantSolOption::SetValue stores Option_Info::wantsol.
ParseValue ==
  /\ pc = "parse"
  /\ CharAt(str, SkipSpaces(str, pos)) # NUL
  /\ LET sc == Scan(str, pos) IN
       /\ sc.name \in Registered
       /\ ~IsQuery(str, sc.s)
       /\ ~(is_keyword(sc.name) /\ sc.equal_sign)
       /\ skip' = FALSE
       /\ LET r == IF is_keyword(sc.name)
                     THEN [ok |-> TRUE, value |-> 0, s |-> sc.s]
                     ELSE TypedParse(str, sc.s)
          IN /\ pos' = r.s
             /\ IF is_keyword(sc.name)
                  THEN /\ show_version' = TRUE
                       /\ UNCHANGED <<wantsol, sets, has_errors_, errors>>
                  ELSE IF r.ok
                    THEN /\ wantsol' = r.value
                         /\ sets' = Append(sets, r.value)
                         /\ UNCHANGED <<show_version, has_errors_, errors>>
                    ELSE /\ ReportError("Invalid value", sc.name)
                         /\ UNCHANGED <<show_version, wantsol, sets>>
             /\ out' = IF ~noEcho
                         THEN Append(out, SubSeq(str, sc.name_start, r.s - 1))
                         ELSE out
             /\ Pass("parse", sc, r.s)
  /\ UNCHANGED <<entry, pc, str, noEcho>>
  /\ UNCHANGED <<dataVars, sigVars, read_time_, runVars>>

\* void BasicSolver::ParseOptionString(const char *s, unsigned flags), one
\* pass of its loop.
ParseOptionString ==
  \/ ParseReturn
  \/ ParseUnknown
  \/ ParseQuery
  \/ ParseKeywordArgument
  \/ ParseValue

\* solver.cc:277-278  the call: bool skip = false;
EnterParseOptionString(s, flags_no_echo) ==
  /\ str' = s
  /\ pos' = 1
  /\ skip' = FALSE
  /\ noEcho' = flags_no_echo
  /\ pc' = "parse"

(***************************************************************************)
(* ParseOptionString called on option strings made of a few tokens         *)
(***************************************************************************)
\* The number of tokens of an option string.
MaxTokens == 3

\* The tokens option strings are made of.
Tokens ==
  { sWantsol \o <<"=", "3">>,                       \* wantsol=3
    sWantsol \o <<"?">>,                            \* wantsol?
    sWantsol \o <<"=", "?">>,                       \* wantsol=?
    <<"b", "a", "r">>,                              \* bar
    sVersion,                                       \* version
    sVersion \o <<"=", "1">>,                       \* version=1
    <<"W", "a", "n", "t", "S", "o", "l", " ", "=", " ", "1">>,  \* WantSol = 1
    sWantsol \o <<"=", "2", "x">>,                  \* wantsol=2x
    <<"b", "a", "z", "=", "5">>,                    \* baz=5
    <<"=", "4">> }                                  \* =4

\* The strings of exactly n tokens, separated by one space.
RECURSIVE TokenStrings(_)
TokenStrings(n) ==
  IF n = 0 THEN {<<>>}
  ELSE IF n = 1 THEN Tokens
  ELSE {t \o <<" ">> \o r : t \in Tokens, r \in TokenStrings(n - 1)}

\* solver.cc:231-235  the behaviours wantsol is a sum of: 1 = write .sol file,
\* 2 = primal variables to stdout, 4 = dual variables to stdout, 8 = suppress
\* solution message.
WantsolBits == {1, 2, 4, 8}

\* The sum of the behaviours of B.
WantsolSum(B) ==
  (IF 1 \in B THEN 1 ELSE 0) + (IF 2 \in B THEN 2 ELSE 0)
    + (IF 4 \in B THEN 4 ELSE 0) + (IF 8 \in B THEN 8 ELSE 0)

\* The option string "wantsol=v", v written in decimal.
WantsolText(v) == sWantsol \o <<"=">> \o NatStr(v)

\* "wantsol=v" for every sum v of behaviours: v in 0..15.
WantsolStrings == {WantsolText(WantsolSum(B)) : B \in SUBSET WantsolBits}

OptionStrings ==
  UNION {TokenStrings(n) : n \in 0..MaxTokens} \cup WantsolStrings

\* solver.ParseOptionString(s, flags) called from outside.
CallParseOptionString ==
  /\ pc = "idle"
  /\ \E s \in OptionStrings, f \in BOOLEAN : EnterParseOptionString(s, f)
  /\ entry' = "ParseOptionString"
  /\ iter' = NoIter /\ errors' = <<>> /\ out' = <<>> /\ sets' = <<>>
  /\ UNCHANGED <<dataVars, sigVars, solverVars, runVars>>

InitParseSpec ==
  /\ InitStatics /\ resetOnDelivery = FALSE
  /\ BasicSolverCtor /\ read_time_ = 0
  /\ InitParse /\ InitData

NextParse ==
  \/ CallParseOptionString
  \/ ParseOptionString

SpecParse == InitParseSpec /\ [][NextParse]_vars


(***************************************************************************)
(* BasicSolver: ParseOptions, ProcessArgs and Run                          *)
(***************************************************************************)
\* The number of command-line arguments after the stub.
MaxArgs == 2
\* The last value of the clock xectim_() reads.
MaxClock == 1

\* The values of the environment variable <name>_options, when it is set.
EnvStrings ==
  { sWantsol \o <<"=", "1", " ">> \o sWantsol \o <<"=", "?">>,  \* wantsol=1 wantsol=?
    sVersion \o <<"=", "7", " ">> \o sVersion }                 \* version=7 version

\* The command-line arguments.
ArgStrings ==
  { sWantsol \o <<"=", "3">>,                                  \* wantsol=3
    sWantsol \o <<"=", "1">>,                                  \* wantsol=1
    sWantsol \o <<"=", "2", "x", " ">> \o sBar }               \* wantsol=2x bar

ArgLists == UNION {[1..n -> ArgStrings] : n \in 0..MaxArgs}

\* How a call of Solve can end: it returns, leaving a solve code (solved,
\* infeasible, failure), or it throws.
SolveEnds ==
  {[threw |-> FALSE, solve_code |-> c] : c \in {0, 200, 500}}
    \cup {[threw |-> TRUE, solve_code |-> -1]}

\* The clock after a stretch of work: it may or may not have advanced.
Later == {clock} \cup (IF clock < MaxClock THEN {clock + 1} ELSE {})

\* solver.Run(argv) called from outside.
\* solver.cc:366  double start_time = xectim_();
CallRun ==
  /\ pc = "idle"
  /\ entry' = "Run"
  /\ \E st \in {"null", "stub"}, e \in {{}} \cup {{s} : s \in EnvStrings}, a \in ArgLists :
       stub' = st /\ env' = e /\ argv' = a
  /\ argi' = 1
  /\ start_time' = clock
  /\ pc' = "process_args"
  /\ UNCHANGED <<str, pos, skip, noEcho, iter, errors, out, sets>>
  /\ UNCHANGED <<clock, ret, poResult, problemRead, parsed, solveLog,
                 loadTicks, okRun>>
  /\ UNCHANGED <<dataVars, sigVars, solverVars>>

\* solver.cc:261-265  getstub_ASL found no stub: usage, return false; and
\* solver.cc:367-368  Run returns 1.
ProcessArgsNoStub ==
  /\ pc = "process_args" /\ stub = "null"
  /\ ret' = "1"
  /\ pc' = "done"
  /\ UNCHANGED <<entry, str, pos, skip, noEcho, iter, errors, out, sets>>
  /\ UNCHANGED <<stub, env, argv, argi, start_time, clock, poResult,
                 problemRead, parsed, solveLog, loadTicks, okRun>>
  /\ UNCHANGED <<dataVars, sigVars, solverVars>>

\* solver.cc:266  problem_.Read(stub);
ProcessArgsRead ==
  /\ pc = "process_args" /\ stub # "null"
  /\ problemRead' = TRUE
  /\ \E t \in Later : clock' = t /\ loadTicks' = loadTicks + (t - clock)
  /\ pc' = "parse_options"
  /\ UNCHANGED <<entry, str, pos, skip, noEcho, iter, errors, out, sets>>
  /\ UNCHANGED <<stub, env, argv, argi, start_time, ret, poResult, parsed,
                 solveLog, okRun>>
  /\ UNCHANGED <<dataVars, sigVars, solverVars>>

\* ParseOptionsBegin without has_errors_ = false.
ParseOptionsBegin_KeepsErrors ==
  /\ pc = "parse_options"
  /\ show_version' = FALSE
  /\ IF env # {}
       THEN \E s \in env : EnterParseOptionString(s, FALSE)
       ELSE pc' = "next_arg" /\ UNCHANGED <<str, pos, skip, noEcho>>
  /\ UNCHANGED <<entry, iter, errors, out, sets>>
  /\ UNCHANGED <<dataVars, sigVars, has_errors_, wantsol, read_time_, runVars>>

\* solver.cc:350-355  has_errors_ = false; the version flag is cleared; the
\* environment string, if there is one, is parsed first.  ProcessArgs passes
\* flags on, and Run calls ProcessArgs(argv) with none set.
ParseOptionsBegin ==
  /\ pc = "parse_options"
  /\ has_errors_' = FALSE
  /\ show_version' = FALSE
  /\ IF env # {}
       THEN \E s \in env : EnterParseOptionString(s, FALSE)
       ELSE pc' = "next_arg" /\ UNCHANGED <<str, pos, skip, noEcho>>
  /\ UNCHANGED <<entry, iter, errors, out, sets>>
  /\ UNCHANGED <<dataVars, sigVars, wantsol, read_time_, runVars>>

\* ParseOptionsNextArg taking the arguments from the last to the first.
ParseOptionsNextArg_Backwards ==
  /\ pc = "next_arg" /\ argi <= Len(argv)
  /\ EnterParseOptionString(argv[Len(argv) + 1 - argi], noEcho)
  /\ argi' = argi + 1
  /\ UNCHANGED <<entry, iter, errors, out, sets>>
  /\ UNCHANGED <<stub, env, argv, start_time, clock, ret, poResult,
                 problemRead, parsed, solveLog, loadTicks, okRun>>
  /\ UNCHANGED <<dataVars, sigVars, solverVars>>

\* solver.cc:356-357  while (const char *s = *argv++) ParseOptionString(s, flags);
ParseOptionsNextArg ==
  /\ pc = "next_arg" /\ argi <= Len(argv)
  /\ EnterParseOptionString(argv[argi], noEcho)
  /\ argi' = argi + 1
  /\ UNCHANGED <<entry, iter, errors, out, sets>>
  /\ UNCHANGED <<stub, env, argv, start_time, clock, ret, poResult,
                 problemRead, parsed, solveLog, loadTicks, okRun>>
  /\ UNCHANGED <<dataVars, sigVars, solverVars>>

\* solver.cc:358-362  after the last argument: the version is shown if it
\* was asked for, and ParseOptions returns !has_errors_.
ParseOptionsReturn ==
  /\ pc = "next_arg" /\ argi > Len(argv)
  /\ out' = IF show_version
              THEN Append(out, <<"s", "h", "o", "w", "_", "v", "e", "r", "s", "i", "o", "n">>)
              ELSE out
  /\ poResult' = IF has_errors_ THEN "false" ELSE "true"
  /\ pc' = "after_args"
  /\ UNCHANGED <<entry, str, pos, skip, noEcho, iter, errors, sets>>
  /\ UNCHANGED <<stub, env, argv, argi, start_time, clock, ret,
                 problemRead, parsed, solveLog, loadTicks, okRun>>
  /\ UNCHANGED <<dataVars, sigVars, solverVars>>

\* RunAfterArgs without the test of what ProcessArgs returned.
RunAfterArgs_SolvesAnyway ==
  /\ pc = "after_args"
  /\ read_time_' = clock - start_time
  /\ pc' = "solve"
  /\ UNCHANGED <<entry, str, pos, skip, noEcho, iter, errors, out, sets>>
  /\ UNCHANGED runVars
  /\ UNCHANGED <<dataVars, sigVars, has_errors_, show_version, wantsol>>

\* solver.cc:367-368  if (!ProcessArgs(argv)) return 1;
\* solver.cc:383  Reset reset(read_time_ = xectim_() - start_time);
RunAfterArgs ==
  /\ pc = "after_args"
  /\ IF poResult = "false"
       THEN /\ ret' = "1"
            /\ pc' = "done"
            /\ UNCHANGED read_time_
       ELSE /\ read_time_' = clock - start_time
            /\ pc' = "solve"
            /\ UNCHANGED ret
  /\ UNCHANGED <<entry, str, pos, skip, noEcho, iter, errors, out, sets>>
  /\ UNCHANGED <<stub, env, argv, argi, start_time, clock, poResult,
                 problemRead, parsed, solveLog, loadTicks, okRun>>
  /\ UNCHANGED <<dataVars, sigVars, has_errors_, show_version, wantsol>>

\* What a call of Solve is recorded as: the read time it found, whether the
\* problem was read and the options parsed by then, and how it ended.
SolveRecord(how) ==
  [read_time |-> read_time_, read |-> problemRead, parsed |-> poResult,
   strings |-> parsed, ended |-> how]

\* solver.cc:384  Solve(problem()); it returns, leaving a solve code, or it
\* throws.
RunSolve ==
  /\ pc = "solve"
  /\ \E how \in SolveEnds :
       /\ solveLog' = Append(solveLog, SolveRecord(how))
       /\ pc' = IF how.threw THEN "thrown" ELSE "solved"
  /\ \E t \in Later : clock' = t
  /\ UNCHANGED <<entry, str, pos, skip, noEcho, iter, errors, out, sets>>
  /\ UNCHANGED <<stub, env, argv, argi, start_time, ret, poResult,
                 problemRead, parsed, loadTicks, okRun>>
  /\ UNCHANGED <<dataVars, sigVars, solverVars>>

\* RunReturn with read_time_ reset by a statement before return 0 instead
\* of by the destructor: the exception passes it by.
RunReturn_ResetOnReturnOnly ==
  /\ pc \in {"solved", "thrown"}
  /\ read_time_' = IF pc = "solved" THEN 0 ELSE read_time_
  /\ ret' = IF pc = "solved" THEN "0" ELSE "threw"
  /\ okRun' = TRUE
  /\ pc' = "done"
  /\ UNCHANGED <<entry, str, pos, skip, noEcho, iter, errors, out, sets>>
  /\ UNCHANGED <<stub, env, argv, argi, start_time, clock, poResult,
                 problemRead, parsed, solveLog, loadTicks>>
  /\ UNCHANGED <<dataVars, sigVars, has_errors_, show_version, wantsol>>

\* solver.cc:381  ~Reset() { value_ = 0; } as Run is left, by
\* solver.cc:385  return 0; or by the exception Solve threw.
RunReturn ==
  /\ pc \in {"solved", "thrown"}
  /\ read_time_' = 0
  /\ ret' = IF pc = "solved" THEN "0" ELSE "threw"
  /\ okRun' = TRUE
  /\ pc' = "done"
  /\ UNCHANGED <<entry, str, pos, skip, noEcho, iter, errors, out, sets>>
  /\ UNCHANGED <<stub, env, argv, argi, start_time, clock, poResult,
                 problemRead, parsed, solveLog, loadTicks>>
  /\ UNCHANGED <<dataVars, sigVars, has_errors_, show_version, wantsol>>

\* solver.Solve(problem) called from outside (solver.cc:373-375).
CallSolve ==
  /\ pc = "idle"
  /\ entry' = "Solve"
  /\ \E how \in SolveEnds : solveLog' = <<SolveRecord(how)>>
  /\ \E t \in Later : clock' = t
  /\ pc' = "done"
  /\ UNCHANGED <<str, pos, skip, noEcho, iter, errors, out, sets>>
  /\ UNCHANGED <<stub, env, argv, argi, start_time, ret, poResult,
                 problemRead, parsed, loadTicks, okRun>>
  /\ UNCHANGED <<dataVars, sigVars, solverVars>>

\* The call from outside has returned: its activation is gone, and what was
\* observed of it is dropped.
Return ==
  /\ pc = "done"
  /\ entry' = "none" /\ pc' = "idle"
  /\ str' = <<>> /\ pos' = 1 /\ skip' = FALSE /\ noEcho' = FALSE
  /\ iter' = NoIter /\ errors' = <<>> /\ out' = <<>> /\ sets' = <<>>
  /\ stub' = "null" /\ env' = {} /\ argv' = <<>> /\ argi' = 1
  /\ start_time' = 0
  /\ ret' = "none" /\ poResult' = "none" /\ problemRead' = FALSE
  /\ parsed' = <<>> /\ solveLog' = <<>> /\ loadTicks' = 0
  /\ UNCHANGED <<clock, okRun>>
  /\ UNCHANGED <<dataVars, sigVars, solverVars>>

\* bool BasicSolver::ParseOptions(char **argv, unsigned flags), one step.
ParseOptions ==
  \/ ParseOptionsBegin
  \/ ParseOptionsNextArg
  \/ ParseOptionsReturn

\* int BasicSolver::Run(char **argv), one step.
Run ==
  \/ ProcessArgsNoStub
  \/ ProcessArgsRead
  \/ ParseOptions
  \/ ParseOptionString
  \/ RunAfterArgs
  \/ RunSolve
  \/ RunReturn

\* read_time_ is not initialised by the constructor (solver.cc:189): it
\* holds 0 or anything else.
InitRun ==
  /\ InitStatics /\ resetOnDelivery = FALSE
  /\ BasicSolverCtor /\ read_time_ \in {0, 9}
  /\ InitParse /\ InitData

NextRun ==
  \/ CallRun
  \/ Run
  \/ CallSolve
  \/ Return

SpecRun == InitRun /\ [][NextRun]_vars

(***************************************************************************)
(* Problem and ProblemChanges                                              *)
(***************************************************************************)
\* The number of variables a problem gets.
MaxVars == 17
\* The number of INTEGER variables added to a problem.
MaxInts == 1
\* The number of objectives and of logical constraints added to a problem.
MaxObjs == 1
MaxCons == 1
\* The largest count of a problem that Read loads.
MaxLoaded == 2
\* The largest size and capacity IncreaseCapacity is applied to directly.
MaxSize == 5
\* The number of variables added to a ProblemChanges, and to a problem
\* after a ProblemChanges was constructed against it.
MaxChanges == 2

\* An element of new T[capacity] that nothing was stored to.
Uninit == -1

Max(a, b) == IF a >= b THEN a ELSE b

\* IncreaseCapacity without the test for a problem that was loaded.
IncreaseCapacity_NoGuard(size, capacity) ==
  LET c == Max(capacity, size)
  IN [threw |-> FALSE, capacity |-> IF c # 0 THEN 2 * c ELSE 8]

\* IncreaseCapacity that makes room for one more element only.
IncreaseCapacity_ByOne(size, capacity) ==
  IF capacity = 0 /\ size # 0
    THEN [threw |-> TRUE, capacity |-> capacity]
    ELSE [threw |-> FALSE, capacity |-> Max(capacity, size) + 1]

\* problem.h:123-128  static void IncreaseCapacity(int size, int &capacity):
\* it throws, or it leaves a new capacity.
IncreaseCapacity(size, capacity) ==
  IF capacity = 0 /\ size # 0
    THEN [threw |-> TRUE, capacity |-> capacity]
    ELSE LET c == Max(capacity, size)
         IN [threw |-> FALSE, capacity |-> IF c # 0 THEN 2 * c ELSE 8]

\* Grow without std::copy.
Grow_NoCopy(array, size, capacity) == [k \in 1..capacity |-> Uninit]

\* problem.h:130-136  Grow: a new array of capacity elements, the first size
\* of them copied from the old one.
Grow(array, size, capacity) ==
  [k \in 1..capacity |-> IF k <= size THEN array[k] ELSE Uninit]

\* The same for the array of variable types.
GrowTypes(array, size, capacity) ==
  [k \in 1..capacity |-> IF k <= size THEN array[k] ELSE "uninit"]

\* problem.h:160-168  the five counts of integer variables are one count here.
num_integer_vars == niv_
num_continuous_vars == n_var_ - num_integer_vars

\* var_type that forgets the test of var_types_.
var_type_ByPosition(var_index) ==
  IF var_index >= num_continuous_vars THEN "INTEGER" ELSE "CONTINUOUS"

\* problem.h:180-185  VarType var_type(int var_index) const
var_type(var_index) ==
  IF var_types_ # {}
    THEN (CHOOSE a \in var_types_ : TRUE)[var_index + 1]
    ELSE IF var_index >= num_continuous_vars THEN "INTEGER" ELSE "CONTINUOUS"

\* problem.h:191-194, 200-203  var_lb(int), var_ub(int)
var_lb(var_index) == LUv_[var_index + 1]
var_ub(var_index) == Uvx_[var_index + 1]

\* Problem::Read(stub) (problem.cc): the counts and the arrays are those of
\* the file; the capacities stay 0 and var_types_ stays null.
Read ==
  /\ ~loaded /\ last.op \in {"none", "IncreaseCapacity"} /\ problem_ = "null"
  /\ n_var_ = 0 /\ n_obj_ = 0 /\ n_lcon_ = 0
  /\ \E nv \in 0..MaxLoaded, no \in 0..1, nl \in 0..1 :
       /\ n_var_' = nv /\ n_obj_' = no /\ n_lcon_' = nl
       /\ \E ni \in 0..nv : niv_' = ni
       /\ LUv_' = [k \in 1..nv |-> 0]
       /\ Uvx_' = [k \in 1..nv |-> k]
  /\ loaded' = TRUE
  /\ UNCHANGED <<var_capacity_, obj_capacity_, logical_con_capacity_,
                 var_types_, addLog, last>>
  /\ UNCHANGED <<changesVars, solutionVars>>
  /\ UNCHANGED <<sigVars, solverVars, parseVars, runVars, formatVars>>

\* What the i-th variable (counting from 0) is added with.
VarInputs(i) ==
  {[lb |-> 2 * i, ub |-> 2 * i + 1, type |-> "CONTINUOUS"]}
    \cup (IF Cardinality({k \in DOMAIN addLog : addLog[k].type = "INTEGER"}) < MaxInts
            THEN {[lb |-> 0, ub |-> i + 1, type |-> "INTEGER"]}
            ELSE {})

\* The record of a structural append: whether IncreaseCapacity was called,
\* with which size and capacity, and what it left or that it threw.
AppendRecord(op, grew, size, capacity, r) ==
  [op |-> op, threw |-> grew /\ r.threw, grew |-> grew, size |-> size,
   capacity |-> capacity,
   capacity1 |-> IF grew THEN r.capacity ELSE capacity]

\* Problem::AddVar(lb, ub, type) (problem.cc): when the arrays are full,
\* IncreaseCapacity and Grow of each array; the variable is stored at index
\* num_vars and counted.  The type array is made when a continuous variable
\* comes after an integer one, which the positions cannot tell.
AddVar ==
  /\ n_var_ < MaxVars
  /\ problem_ # "null" => n_var_ < pcBase + MaxChanges
  /\ \E in \in VarInputs(n_var_) :
       LET grew == n_var_ >= var_capacity_
           r == IncreaseCapacity(n_var_, var_capacity_)
           rec == AppendRecord("AddVar", grew, n_var_, var_capacity_, r)
           cap == rec.capacity1
           lbs == IF grew THEN Grow(LUv_, n_var_, cap) ELSE LUv_
           ubs == IF grew THEN Grow(Uvx_, n_var_, cap) ELSE Uvx_
           grown == IF grew THEN {GrowTypes(a, n_var_, cap) : a \in var_types_}
                    ELSE var_types_
           types == IF grown = {} /\ in.type = "CONTINUOUS" /\ niv_ > 0
                      THEN {[k \in 1..cap |->
                               IF k <= n_var_ THEN var_type(k - 1) ELSE "uninit"]}
                      ELSE grown
       IN /\ last' = rec
          /\ IF rec.threw
               THEN UNCHANGED <<n_var_, niv_, var_capacity_, LUv_, Uvx_,
                                var_types_, addLog>>
               ELSE /\ var_capacity_' = cap
                    /\ LUv_' = [lbs EXCEPT ![n_var_ + 1] = in.lb]
                    /\ Uvx_' = [ubs EXCEPT ![n_var_ + 1] = in.ub]
                    /\ var_types_' = {[a EXCEPT ![n_var_ + 1] = in.type] : a \in types}
                    /\ niv_' = IF in.type = "INTEGER" THEN niv_ + 1 ELSE niv_
                    /\ n_var_' = n_var_ + 1
                    /\ addLog' = Append(addLog, in)
  /\ UNCHANGED <<n_obj_, n_lcon_, obj_capacity_, logical_con_capacity_, loaded>>
  /\ UNCHANGED <<changesVars, solutionVars>>
  /\ UNCHANGED <<sigVars, solverVars, parseVars, runVars, formatVars>>

\* Problem::AddObj(type, expr) (problem.cc): the same growth for the arrays
\* of the objectives, whose elements are not modelled.
AddObj ==
  /\ n_obj_ < MaxObjs + MaxLoaded
  /\ LET grew == n_obj_ >= obj_capacity_
         r == IncreaseCapacity(n_obj_, obj_capacity_)
         rec == AppendRecord("AddObj", grew, n_obj_, obj_capacity_, r)
     IN /\ last' = rec
        /\ IF rec.threw
             THEN UNCHANGED <<n_obj_, obj_capacity_>>
             ELSE /\ obj_capacity_' = rec.capacity1
                  /\ n_obj_' = n_obj_ + 1
  /\ UNCHANGED <<n_var_, niv_, n_lcon_, var_capacity_, logical_con_capacity_,
                 LUv_, Uvx_, var_types_, loaded, addLog>>
  /\ UNCHANGED <<changesVars, solutionVars>>
  /\ UNCHANGED <<sigVars, solverVars, parseVars, runVars, formatVars>>

\* Problem::AddCon(expr) (problem.cc): the same growth for the array of the
\* logical constraints.
AddCon ==
  /\ n_lcon_ < MaxCons + MaxLoaded
  /\ LET grew == n_lcon_ >= logical_con_capacity_
         r == IncreaseCapacity(n_lcon_, logical_con_capacity_)
         rec == AppendRecord("AddCon", grew, n_lcon_, logical_con_capacity_, r)
     IN /\ last' = rec
        /\ IF rec.threw
             THEN UNCHANGED <<n_lcon_, logical_con_capacity_>>
             ELSE /\ logical_con_capacity_' = rec.capacity1
                  /\ n_lcon_' = n_lcon_ + 1
  /\ UNCHANGED <<n_var_, niv_, n_obj_, var_capacity_, obj_capacity_,
                 LUv_, Uvx_, var_types_, loaded, addLog>>
  /\ UNCHANGED <<changesVars, solutionVars>>
  /\ UNCHANGED <<sigVars, solverVars, parseVars, runVars, formatVars>>

\* IncreaseCapacity(size, capacity) applied to any two numbers, before the
\* first append.
CallIncreaseCapacity ==
  /\ last.op = "none"
  /\ \E size \in 0..MaxSize, capacity \in 0..MaxSize :
       last' = AppendRecord("IncreaseCapacity", TRUE, size, capacity,
                            IncreaseCapacity(size, capacity))
  /\ UNCHANGED <<n_var_, niv_, n_obj_, n_lcon_, var_capacity_, obj_capacity_,
                 logical_con_capacity_, LUv_, Uvx_, var_types_, loaded, addLog>>
  /\ UNCHANGED <<changesVars, solutionVars>>
  /\ UNCHANGED <<sigVars, solverVars, parseVars, runVars, formatVars>>

\* problem.h:310  explicit ProblemChanges(const Problem &p)
NewChanges ==
  /\ problem_ = "null"
  /\ problem_' = "p"
  /\ pcBase' = n_var_
  /\ UNCHANGED <<var_lb_, var_ub_, pcReturned>>
  /\ UNCHANGED <<problemVars, solutionVars>>
  /\ UNCHANGED <<sigVars, solverVars, parseVars, runVars, formatVars>>

\* problem.h:316  int num_vars() const of ProblemChanges
changes_num_vars == Len(var_lb_)

\* ProblemChanges::AddVar returning the number of the variable among the
\* additional ones.
ChangesAddVar_Local ==
  /\ problem_ # "null" /\ Len(var_lb_) < MaxChanges
  /\ var_lb_' = Append(var_lb_, 100 + Len(var_lb_))
  /\ var_ub_' = Append(var_ub_, 200 + Len(var_ub_))
  /\ pcReturned' = Append(pcReturned, Len(var_lb_') - 1)
  /\ UNCHANGED <<problem_, pcBase>>
  /\ UNCHANGED <<problemVars, solutionVars>>
  /\ UNCHANGED <<sigVars, solverVars, parseVars, runVars, formatVars>>

\* problem.h:325-329  int AddVar(double lb, double ub) of ProblemChanges
ChangesAddVar ==
  /\ problem_ # "null" /\ Len(var_lb_) < MaxChanges
  /\ var_lb_' = Append(var_lb_, 100 + Len(var_lb_))
  /\ var_ub_' = Append(var_ub_, 200 + Len(var_ub_))
  /\ pcReturned' = Append(pcReturned, n_var_ + Len(var_lb_') - 1)
  /\ UNCHANGED <<problem_, pcBase>>
  /\ UNCHANGED <<problemVars, solutionVars>>
  /\ UNCHANGED <<sigVars, solverVars, parseVars, runVars, formatVars>>

InitProblemSpec ==
  /\ InitStatics /\ resetOnDelivery = FALSE
  /\ BasicSolverCtor /\ read_time_ = 0
  /\ InitParse /\ InitData

\* A problem that is read or built by appends.
NextProblem ==
  \/ Read
  \/ AddVar
  \/ AddObj
  \/ AddCon
  \/ CallIncreaseCapacity

SpecProblem == InitProblemSpec /\ [][NextProblem]_vars

\* A problem and a ProblemChanges recorded against it.
NextChanges ==
  \/ Read
  \/ AddVar
  \/ NewChanges
  \/ ChangesAddVar

SpecChanges == InitProblemSpec /\ [][NextChanges]_vars

(***************************************************************************)
(* Solution                                                                *)
(***************************************************************************)
\* The solve codes a solution is given are -MaxNegCode..MaxCode.
MaxNegCode == 3
MaxCode == 702

\* problem.h:52-60  enum Status, in the order of its values 0..6.
Status == <<"UNKNOWN", "SOLVED", "SOLVED_MAYBE", "INFEASIBLE", "UNBOUNDED",
            "LIMIT", "FAILURE">>

\* status() without the + 1.
status_NoPlusOne ==
  IF solve_code_ < 0 \/ solve_code_ >= 600
    THEN Status[1]
    ELSE Status[(solve_code_ \div 100) + 1]

\* problem.h:72-75  Status status() const; the division is one of
\* non-negative numbers, and the enumerator with the value n is Status[n + 1].
status ==
  IF solve_code_ < 0 \/ solve_code_ >= 600
    THEN Status[1]
    ELSE Status[(solve_code_ \div 100 + 1) + 1]

\* Solution::Read(stub, num_vars, num_cons) (problem.cc): the solve code is
\* the one of the file.
SolutionRead ==
  /\ \E c \in (-MaxNegCode)..MaxCode : solve_code_' = c
  /\ statusSeen' = "none"
  /\ UNCHANGED <<problemVars, changesVars>>
  /\ UNCHANGED <<sigVars, solverVars, parseVars, runVars, formatVars>>

\* A call of status().
CallStatus ==
  /\ statusSeen' = status
  /\ UNCHANGED solve_code_
  /\ UNCHANGED <<problemVars, changesVars>>
  /\ UNCHANGED <<sigVars, solverVars, parseVars, runVars, formatVars>>

NextSolution ==
  \/ SolutionRead
  \/ CallStatus

SpecSolution == InitProblemSpec /\ [][NextSolution]_vars

(***************************************************************************)
(* internal::Format                                                        *)
(***************************************************************************)
\* solver.cc:62  const int MAX_LINE_LENGTH = 78;
MAX_LINE_LENGTH == 78

\* n spaces.
Blanks(n) == [k \in 1..n |-> " "]

\* solver.cc:66-67  while (*p == ' ') ++p;
RECURSIVE SkipBlanks(_, _)
SkipBlanks(s, p) == IF CharAt(s, p) = " " THEN SkipBlanks(s, p + 1) ELSE p

\* solver.cc:69-70  while (*p != ' ' && *p != '\n' && *p) ++p;
RECURSIVE SkipWord(_, _)
SkipWord(s, p) ==
  IF CharAt(s, p) \notin {" ", "\n", NUL} THEN SkipWord(s, p + 1) ELSE p

\* What the function holds before the first pass of its loop
\* (solver.cc:58-63); line is the index where the input line being read
\* starts and starts the record of the output lines started.
FormatEntry(indent) ==
  [p |-> 1, indent |-> indent, new_line |-> TRUE, line_offset |-> 0,
   os |-> <<>>, line |-> 1, starts |-> <<>>]

\* FormatPass testing the length of the word without the spaces before it.
FormatPass_WordOnly(s, indent0, st) ==
  LET start == st.p
      word_start == SkipBlanks(s, start)
      word_end == SkipWord(s, word_start)
      indent == IF st.new_line THEN indent0 + (word_start - start)
                ELSE st.indent
      wrap == st.line_offset + (word_end - word_start) > MAX_LINE_LENGTH
      os1 == IF wrap THEN Append(st.os, "\n") ELSE st.os
      offset1 == IF wrap THEN 0 ELSE st.line_offset
      pad == offset1 = 0
      os2 == IF pad THEN os1 \o Blanks(indent) ELSE os1
      offset2 == IF pad /\ indent > 0 THEN indent ELSE offset1
      start2 == IF pad THEN word_start ELSE start
      os3 == os2 \o SubSeq(s, start2, word_end - 1)
      offset3 == offset2 + (word_end - start2)
      nl == CharAt(s, word_end) = "\n"
  IN [p |-> IF nl THEN word_end + 1 ELSE word_end,
      indent |-> indent,
      new_line |-> nl,
      line_offset |-> IF nl THEN 0 ELSE offset3,
      os |-> IF nl THEN Append(os3, "\n") ELSE os3,
      line |-> IF nl THEN word_end + 1 ELSE st.line,
      starts |-> IF pad
                   THEN Append(st.starts, [at |-> Len(os1) + 1,
                                           wrapped |-> wrap,
                                           line |-> st.line])
                   ELSE st.starts]

\* solver.cc:65-94  one pass of the loop of Format over s, started with the
\* indent indent0, from the state st.
FormatPass(s, indent0, st) ==
  LET start == st.p
      word_start == SkipBlanks(s, start)
      word_end == SkipWord(s, word_start)
      \* solver.cc:72-75
      indent == IF st.new_line THEN indent0 + (word_start - start)
                ELSE st.indent
      \* solver.cc:76-80  the word doesn't fit, start a new line
      wrap == st.line_offset + (word_end - start) > MAX_LINE_LENGTH
      os1 == IF wrap THEN Append(st.os, "\n") ELSE st.os
      offset1 == IF wrap THEN 0 ELSE st.line_offset
      \* solver.cc:81-86  indent the line
      pad == offset1 = 0
      os2 == IF pad THEN os1 \o Blanks(indent) ELSE os1
      offset2 == IF pad /\ indent > 0 THEN indent ELSE offset1
      start2 == IF pad THEN word_start ELSE start
      \* solver.cc:87-88
      os3 == os2 \o SubSeq(s, start2, word_end - 1)
      offset3 == offset2 + (word_end - start2)
      \* solver.cc:89-94
      nl == CharAt(s, word_end) = "\n"
  IN [p |-> IF nl THEN word_end + 1 ELSE word_end,
      indent |-> indent,
      new_line |-> nl,
      line_offset |-> IF nl THEN 0 ELSE offset3,
      os |-> IF nl THEN Append(os3, "\n") ELSE os3,
      line |-> IF nl THEN word_end + 1 ELSE st.line,
      starts |-> IF pad
                   THEN Append(st.starts, [at |-> Len(os1) + 1,
                                           wrapped |-> wrap,
                                           line |-> st.line])
                   ELSE st.starts]

\* solver.cc:64, 95-96  for (;;) { ... if (!*p) break; }
RECURSIVE FormatLoop(_, _, _)
FormatLoop(s, indent0, st) ==
  LET n == FormatPass(s, indent0, st)
  IN IF CharAt(s, n.p) = NUL THEN n ELSE FormatLoop(s, indent0, n)

\* solver.cc:57-100  std::string Format(fmt::StringRef s, int indent): the
\* state at the return, os with the last new line of solver.cc:97-98.
internal_Format(s, indent) ==
  LET n == FormatLoop(s, indent, FormatEntry(indent))
  IN [n EXCEPT !.os = IF ~n.new_line THEN Append(n.os, "\n") ELSE n.os]

\* The number of items an argument of Format is made of.
MaxWords == 2

\* The spaces before a word, the lengths of a word, and the indents.
SpaceCounts == {0, 1, 40}
WordLengths == {0, 38, 39}
StartIndents == {0, 1, 6}

\* An item of a text: spaces, a word of the letter x, and a new line or not.
Word(n) == [k \in 1..n |-> "x"]
Items ==
  {Blanks(b) \o Word(w) \o e :
     b \in SpaceCounts, w \in WordLengths, e \in {<<>>, <<"\n">>}}

\* The texts of at most n items.
RECURSIVE Texts(_)
Texts(n) ==
  IF n = 0 THEN {<<>>}
  ELSE Texts(n - 1) \cup {t \o i : t \in Texts(n - 1), i \in Items}

\* internal::Format(s, indent) called and returning.
CallFormat ==
  /\ fpc = "call"
  /\ LET r == internal_Format(text, start_indent)
     IN os' = r.os /\ starts' = r.starts
  /\ fpc' = "done"
  /\ UNCHANGED <<text, start_indent>>
  /\ UNCHANGED <<problemVars, changesVars, solutionVars>>
  /\ UNCHANGED <<sigVars, solverVars, parseVars, runVars>>

InitFormatSpec ==
  /\ InitStatics /\ resetOnDelivery = FALSE
  /\ BasicSolverCtor /\ read_time_ = 0
  /\ InitParse /\ InitProblem /\ InitChanges /\ InitSolution
  /\ text \in Texts(MaxWords)
  /\ start_indent \in StartIndents
  /\ os = <<>> /\ starts = <<>> /\ fpc = "call"

NextFormat == CallFormat

SpecFormat == InitFormatSpec /\ [][NextFormat]_vars

(***************************************************************************)
(* Properties of SignalHandler                                             *)
(***************************************************************************)
Range(s) == {s[k] : k \in 1..Len(s)}

\* The bytes that signal_message_ptr_ and signal_message_size_ designate.
DesignatedMessage == [k \in 1..signal_message_size_ |-> MessageByte(k - 1)]

\* An activation of HandleSigInt that started with stop_ = e has ended.
ActivationOver(e) ==
  /\ hEntryStop = e /\ hPc = "none"
  /\ written.step \in {"HandlerTestStop", "HandlerSignal"}

C3_WriteOnceBeforeInstall ==
  /\ written.installed => written.fields \subseteq {"stop_"}
  /\ \A d \in SigData \ {"stop_"} : writers[d] \subseteq {"main"}

\* C21: for every interleaving of SIGINT deliveries after one SignalHandler
\* construction, Interrupt is called at most once: the call is made with
\* stop_ already 1, and a SIGINT raised while HandleSigInt is between its
\* test of stop_ and its store to stop_ either ends the process by the
\* default action or is held back until the handler has returned, so it
\* starts no second activation that could pass the test.
C21_InterruptAtMostOnce ==
  /\ [](nCtor <= 1 => interrupts <= 1)
  /\ [][(nCtor <= 1 /\ interrupts' # interrupts) =>
          /\ interrupts = 0 /\ interrupts' = 1
          /\ stop_ = 1 /\ hEntryStop = 0]_vars
  /\ [][(nCtor <= 1 /\ hPc = "set" /\ nSig' = nSig + 1) =>
          \/ proc' = "killed" /\ interrupts' = interrupts
          \/ /\ pending' /\ hPc' = "set" /\ proc' = "running"
             /\ interrupts' = interrupts /\ stop_' = stop_]_vars

\* C21 witness: after one construction a second SIGINT was just raised while
\* the handler of the first is between its test of stop_ and its store to
\* stop_; it is held back.
C21_Witness ==
  /\ nCtor = 1 /\ ctorPc = "idle" /\ interruptible_ = "i1"
  /\ written.step = "RaiseSigInt" /\ pending /\ hPc = "set"
  /\ stop_ = 0 /\ interrupts = 0 /\ nSig = 2

(***************************************************************************)
(* Properties of ParseOptionString                                         *)
(***************************************************************************)
\* A pass of the loop has consumed a token (it was not the final return).
PassDone == iter.branch \in {"unknown", "query", "keyword_argument", "parse"}

\* Where the token of the last pass starts, and that token up to the next
\* white space.
TokenStart == SkipSpaces(str, iter.from)
TokenText == SubSeq(str, TokenStart, SkipNonSpaces(str, TokenStart) - 1)

\* The characters p..q-1 of s are all white space.
AllSpaces(s, p, q) == \A k \in p..(q - 1) : isspace(CharAt(s, k))

\* The text of s at p is the name N (in any letter case), then white space,
\* '=' or both, then "?" followed by white space or the end: a value query.
\* The result is the index after the "?", or 0 if the text is no such query.
QueryEnd(s, p, N) ==
  LET e == p + Len(N)
      Ends == {q \in e..Len(s) :
                 /\ s[q] = "?"
                 /\ CharAt(s, q + 1) = NUL \/ isspace(CharAt(s, q + 1))
                 /\ q > e
                 /\ \E m \in e..(q - 1) :
                      /\ AllSpaces(s, e, m)
                      /\ s[m] = "=" \/ isspace(s[m])
                      /\ AllSpaces(s, m + 1, q)}
  IN IF e <= Len(s) + 1 /\ LowerName(s, p, e) = N /\ Ends # {}
       THEN (CHOOSE q \in Ends : TRUE) + 1
       ELSE 0

\* The line "N=v".
ValueLine(N, v) == N \o <<"=">> \o IntStr(v)

Assignments ==
  { [text |-> sWantsol \o <<"=", "3">>, value |-> 3],
    [text |-> <<"W", "a", "n", "t", "S", "o", "l", " ", "=", " ", "1">>, value |-> 1] }

\* The option strings in which single bare names "bar" stand between
\* assignments: a1 bar a2 (bar a3 ...), given as the sequence of the
\* assignments.
RECURSIVE BarSeparated(_)
BarSeparated(as) ==
  IF Len(as) = 1 THEN as[1].text
  ELSE as[1].text \o <<" ">> \o sBar \o <<" ">> \o BarSeparated(Tail(as))

AssignmentSeqs == UNION {[1..n -> Assignments] : n \in 2..((MaxTokens + 1) \div 2)}

\* C5: when ParseOptionString returns from a string in which one bare
\* unregistered name stands between every two assignments name=value of a
\* registered integer option, every assignment was made with its written
\* value, in order, and exactly one "Unknown option" error was reported for
\* each bare name and no other error; and a pass over a bare unregistered
\* name (no '=' after it) ends at the next token, which it does not consume,
\* and reports the name unless the parse was skipping.
C5_BareUnknownBetweenAssignments ==
  /\ pc = "done" =>
       \A as \in AssignmentSeqs :
         str = BarSeparated(as) =>
           /\ sets = [k \in 1..Len(as) |-> as[k].value]
           /\ wantsol = as[Len(as)].value
           /\ errors = [k \in 1..(Len(as) - 1) |->
                          [kind |-> "Unknown option", name |-> sBar]]
  /\ (PassDone /\ TokenText = sBar
        /\ CharAt(str, SkipSpaces(str, TokenStart + Len(sBar))) # "=") =>
       /\ iter.branch = "unknown"
       /\ iter.to = SkipSpaces(str, TokenStart + Len(sBar))
       /\ Len(errors) = iter.errors0 + (IF iter.skip0 THEN 0 ELSE 1)

\* C5 witness: "wantsol=3 bar WantSol = 1" was parsed to the end.
C5_Witness ==
  /\ pc = "done"
  /\ str = sWantsol \o <<"=", "3", " ">> \o sBar
             \o <<" ", "W", "a", "n", "t", "S", "o", "l", " ", "=", " ", "1">>
  /\ sets = <<3, 1>>
  /\ Len(errors) = 1

\* The text of s at p is the name "version" (in any letter case), white
\* space or none, and '='.
KeywordAssigned(s, p) ==
  /\ LowerName(s, p, p + Len(sVersion)) = sVersion
  /\ \E q \in (p + Len(sVersion))..Len(s) :
       s[q] = "=" /\ AllSpaces(s, p + Len(sVersion), q)

\* C7: a pass over "version", '=' and a value that is no "?" query reports
\* "doesn't accept argument" for version and nothing else, leaves the
\* version flag and wantsol as they were, ends after the value's
\* non-white-space token, and the parse goes on from there.
C7_KeywordWithArgument ==
  (PassDone /\ TokenStart + Len(sVersion) <= Len(str)
     /\ KeywordAssigned(str, TokenStart)
     /\ QueryEnd(str, TokenStart, sVersion) = 0) =>
     /\ iter.branch = "keyword_argument"
     /\ Len(errors) = iter.errors0 + 1
     /\ errors[Len(errors)] = [kind |-> "doesn't accept argument", name |-> sVersion]
     /\ has_errors_
     /\ show_version = iter.version0
     /\ wantsol = iter.wantsol0
     /\ Len(out) = iter.out0
     /\ iter.to > TokenStart + Len(sVersion)
     /\ iter.to = SkipNonSpaces(str, iter.to)
     /\ AllSpaces(str, TokenStart + Len(sVersion), iter.to) = FALSE
     /\ pos = iter.to /\ pc = "parse"

\* C7 witness: "version=1" was passed over with the version flag unset, and
\* the token after it was parsed.
C7_Witness ==
  /\ iter.branch = "parse" /\ sets = <<3>>
  /\ ~show_version
  /\ errors = <<[kind |-> "doesn't accept argument", name |-> sVersion]>>
  /\ SubSeq(str, 1, 9) = sVersion \o <<"=", "1">>

(***************************************************************************)
(* Properties of ParseOptions and Run                                      *)
(***************************************************************************)
\* The option strings of the call in the order of their sources: the
\* environment string, if there is one, and the command-line arguments.
Sources == (IF env = {} THEN <<>> ELSE <<CHOOSE s \in env : TRUE>>) \o argv

\* ParseOptions has returned.
ParseOptionsOver == poResult # "none"

\* C6: the pass that reports an error leaves the parse going, ParseOptions
\* returns only after the environment string and every argument was parsed
\* to its end, and it returns false exactly if an error was reported since
\* it was called, whatever has_errors_ was before.
C6_ErrorsNeverStopTheParse ==
  /\ (PassDone /\ Len(errors) > iter.errors0) =>
       /\ pc = "parse"
       /\ pos = iter.to /\ pos <= Len(str) + 1
  /\ ParseOptionsOver =>
       /\ parsed = Sources
       /\ (poResult = "false") <=> (errors # <<>>)

\* C6 witness: ParseOptions returned false after three strings, two errors
\* in the second of them, and the assignment of the third one was made.
C6_Witness ==
  /\ ParseOptionsOver /\ poResult = "false"
  /\ Len(parsed) = 3 /\ Len(errors) = 2
  /\ argv = <<sWantsol \o <<"=", "2", "x", " ">> \o sBar, sWantsol \o <<"=", "3">>>>
  /\ sets = <<1, 3>> /\ wantsol = 3

\* The value the last valid assignment of wantsol in an option string
\* writes, or -1 if the string has none.
Written(s) ==
  CASE s = sWantsol \o <<"=", "3">> -> 3
    [] s = sWantsol \o <<"=", "1">> -> 1
    [] s = sWantsol \o <<"=", "1", " ">> \o sWantsol \o <<"=", "?">> -> 1
    [] OTHER -> -1

\* The values the option strings write, in the order of the strings.
RECURSIVE WrittenBy(_)
WrittenBy(ss) ==
  IF ss = <<>> THEN <<>>
  ELSE (IF Written(Head(ss)) = -1 THEN <<>> ELSE <<Written(Head(ss))>>)
         \o WrittenBy(Tail(ss))

\* C8: the strings are parsed in the order environment, first argument,
\* second argument, ...; the values of wantsol are set in that order, and
\* after ParseOptions wantsol holds the last of them.
C8_LastAssignmentWins ==
  /\ (entry = "Run" /\ pc # "done") =>
       parsed = SubSeq(Sources, 1, Len(parsed))
  /\ ParseOptionsOver =>
       /\ parsed = Sources
       /\ sets = WrittenBy(Sources)
       /\ sets # <<>> => wantsol = sets[Len(sets)]

\* C8 witness: the environment set wantsol to 1 and the one argument set
\* it to 3: wantsol is 3 after ParseOptions.
C8_Witness ==
  /\ ParseOptionsOver /\ poResult = "true"
  /\ env # {} /\ argv = <<sWantsol \o <<"=", "3">>>>
  /\ sets = <<1, 3>> /\ wantsol = 3

\* C9: a Run without a stub or with a reported option error never calls
\* Solve and returns 1; any other Run calls Solve once, with the problem
\* read and ParseOptions returned true after all the strings, and returns 0
\* if Solve returns, whatever solve code it leaves.
C9_RunSolvesOnlyAfterArgs ==
  entry = "Run" =>
    /\ (stub = "null" \/ errors # <<>>) =>
         /\ solveLog = <<>>
         /\ pc = "done" => ret = "1"
    /\ Len(solveLog) <= 1
    /\ \A i \in DOMAIN solveLog :
         /\ solveLog[i].read
         /\ solveLog[i].parsed = "true"
         /\ solveLog[i].strings = Sources
    /\ (pc = "done" /\ stub # "null" /\ errors = <<>>) =>
         /\ Len(solveLog) = 1
         /\ ret = IF solveLog[1].ended.threw THEN "threw" ELSE "0"

\* C9 witness: Run returned 0 after a Solve that left the solve code 500
\* (failure), with two option strings parsed before it.
C9_Witness ==
  /\ entry = "Run" /\ pc = "done" /\ ret = "0"
  /\ Len(solveLog) = 1 /\ solveLog[1].ended.solve_code = 500
  /\ Len(solveLog[1].strings) = 2

\* C10: from the call of Solve in Run until Run is left read_time_ is the
\* time that passed from the start of Run to the end of ProcessArgs; it is
\* 0 when a Run whose ProcessArgs succeeded is left, by return or by the
\* exception of Solve, and a Solve called after such a Run finds 0.
C10_ReadTimeResetOnExit ==
  /\ (entry = "Run" /\ pc \in {"solve", "solved", "thrown"}) =>
       read_time_ = loadTicks
  /\ (entry = "Run" /\ solveLog # <<>>) => solveLog[1].read_time = loadTicks
  /\ (entry = "Run" /\ pc = "done" /\ poResult = "true") => read_time_ = 0
  /\ okRun => read_time_ = 0 \/ (entry = "Run" /\ pc \in {"solve", "solved", "thrown"})
  /\ (entry = "Solve" /\ okRun) => solveLog[1].read_time = 0

\* C10 witness: Run was left by the exception of a Solve that found the
\* read time 1, and read_time_ is 0.
C10_Witness ==
  /\ entry = "Run" /\ pc = "done" /\ ret = "threw"
  /\ solveLog[1].read_time = 1
  /\ read_time_ = 0

(***************************************************************************)
(* Properties of Problem and ProblemChanges                                *)
(***************************************************************************)
\* The count and the capacity that the last structural append is about.
CountOf(op) ==
  CASE op = "AddVar" -> n_var_ [] op = "AddObj" -> n_obj_ [] OTHER -> n_lcon_
CapacityOf(op) ==
  CASE op = "AddVar" -> var_capacity_
    [] op = "AddObj" -> obj_capacity_
    [] OTHER -> logical_con_capacity_

\* The last append threw "Problem can't be modified" and changed neither
\* the count nor the capacity.
AppendFailed ==
  /\ last.threw
  /\ CountOf(last.op) = last.size
  /\ CapacityOf(last.op) = last.capacity

\* C11 as stated: on a problem that Read has loaded every AddVar, AddObj and
\* AddCon throws and leaves the count and the capacity as they were.
C11_LoadedProblemIsFrozen ==
  (loaded /\ last.op \in {"AddVar", "AddObj", "AddCon"}) => AppendFailed

\* C11: on a problem that Read has loaded, an append to a kind of entity of
\* which there is at least one and whose capacity is 0 throws and leaves the
\* count and the capacity as they were, whatever is passed; an append to a
\* kind of which there is none succeeds and leaves the capacity 8.
C11_LoadedNonEmptyIsFrozen ==
  (loaded /\ last.op \in {"AddVar", "AddObj", "AddCon"} /\ last.capacity = 0) =>
     IF last.size # 0
       THEN AppendFailed
       ELSE /\ ~last.threw
            /\ CountOf(last.op) = 1
            /\ CapacityOf(last.op) = 8

\* C11 witness: AddCon on a loaded problem with two variables and one
\* logical constraint threw; the counts are those that were loaded.
C11_Witness ==
  /\ loaded /\ last.op = "AddCon" /\ AppendFailed
  /\ n_lcon_ = 1 /\ logical_con_capacity_ = 0
  /\ n_var_ = 2 /\ var_capacity_ = 0

\* C12: on a problem built from empty by AddVar calls, the call number i
\* (from 0) stores the variable at index i, num_vars never exceeds the
\* capacity, and var_lb(i) and var_ub(i) are the bounds passed in call i
\* after every later call and growth.
C12_AddVarKeepsBounds ==
  ~loaded =>
     /\ Len(addLog) = n_var_
     /\ (last.op = "AddVar" /\ ~last.threw) => n_var_ = last.size + 1
     /\ n_var_ <= var_capacity_
     /\ \A i \in 0..(n_var_ - 1) :
          /\ var_lb(i) = addLog[i + 1].lb
          /\ var_ub(i) = addLog[i + 1].ub

\* C12 witness: seventeen variables were added, the arrays grew three
\* times, and the bounds of the first and of the ninth variable are there.
C12_Witness ==
  /\ ~loaded /\ n_var_ = 17 /\ var_capacity_ = 32
  /\ var_lb(0) = 0 /\ var_ub(0) = 1
  /\ var_lb(8) = 16 /\ var_ub(8) = 17

\* C13: while the problem has the number of variables it had when the
\* ProblemChanges was constructed, the k-th AddVar of the ProblemChanges
\* returned that number + k - 1; and num_vars() of the ProblemChanges is
\* the number of its AddVar calls.
C13_ChangesIndexIsOffset ==
  /\ changes_num_vars = Len(pcReturned)
  /\ Len(var_ub_) = Len(var_lb_)
  /\ (problem_ # "null" /\ n_var_ = pcBase) =>
       \A k \in 1..Len(pcReturned) : pcReturned[k] = pcBase + k - 1

\* C13 witness: two variables added to a ProblemChanges made for a problem
\* with three variables got the indices 3 and 4.
C13_Witness ==
  /\ problem_ # "null" /\ n_var_ = 3 /\ pcBase = 3
  /\ pcReturned = <<3, 4>> /\ changes_num_vars = 2

\* C22: for every interleaving of Problem.AddVar calls on the base problem
\* and ProblemChanges.AddVar calls on a changeset recorded against it, an
\* index returned by ProblemChanges.AddVar is never equal to the index of a
\* base variable nor to an index returned by an earlier ProblemChanges.AddVar
\* call.
C22_ChangesIndexNeverCollides ==
  \A k \in DOMAIN pcReturned :
    /\ pcReturned[k] \notin 0..(n_var_ - 1)
    /\ \A j \in 1..(k - 1) : pcReturned[j] # pcReturned[k]

RECURSIVE CapacityFor(_, _)
CapacityFor(n, c) == IF n <= c THEN c ELSE CapacityFor(n, 2 * c)

\* C18: an IncreaseCapacity that did not throw left 8 if size and capacity
\* were 0 and 2 * max(capacity, size) otherwise, which is more than size;
\* the capacities of a problem built from empty are 8, 16, 32, ...
C18_CapacityDoubles ==
  /\ (last.grew /\ ~last.threw) =>
       /\ last.capacity1 =
            IF last.capacity = 0 /\ last.size = 0
              THEN 8 ELSE 2 * Max(last.capacity, last.size)
       /\ last.capacity1 > last.size
       /\ last.op # "IncreaseCapacity" => CapacityOf(last.op) = last.capacity1
  /\ ~loaded =>
       var_capacity_ = IF n_var_ = 0 THEN 0 ELSE CapacityFor(n_var_, 8)

\* C18 witness: the seventeenth AddVar found the arrays full at 16 and
\* left the capacity 32.
C18_Witness ==
  /\ ~loaded /\ last.op = "AddVar" /\ last.grew
  /\ last.size = 16 /\ last.capacity = 16 /\ var_capacity_ = 32

(***************************************************************************)
(* Properties of Solution                                                  *)
(***************************************************************************)
\* The status of each band of solve codes.
StatusOfBand(c) ==
  CASE c \in 0..99 -> "SOLVED"
    [] c \in 100..199 -> "SOLVED_MAYBE"
    [] c \in 200..299 -> "INFEASIBLE"
    [] c \in 300..399 -> "UNBOUNDED"
    [] c \in 400..499 -> "LIMIT"
    [] c \in 500..599 -> "FAILURE"
    [] OTHER -> "UNKNOWN"

\* C14: status() returns UNKNOWN for a solve code below 0 or from 600 on,
\* and for a code c in 0..599 the status of the band of c, which is the
\* enumerator with the value c / 100 + 1.
C14_StatusOfSolveCode ==
  statusSeen # "none" =>
     /\ statusSeen = StatusOfBand(solve_code_)
     /\ solve_code_ \in 0..599 =>
          \E n \in 1..6 : n = solve_code_ \div 100 + 1 /\ statusSeen = Status[n + 1]

\* C14 witness: status() returned FAILURE for the solve code 599.
C14_Witness ==
  /\ solve_code_ = 599 /\ statusSeen = "FAILURE"


\* C16: for every integer v in 0..15, parsing "wantsol=v" makes wantsol() equal
\* to v, so each of the four behaviours (1 write result file, 2 echo primal
\* values, 4 echo dual values, 8 suppress the solve message) is requested
\* exactly when its bit is set in v; for v = 3 the first two and only those
\* are requested.
Requested(b) == (wantsol \div b) % 2 = 1

C16_WantsolBits ==
  (entry = "ParseOptionString" /\ pc = "done") =>
    /\ \A B \in SUBSET WantsolBits :
         str = WantsolText(WantsolSum(B)) =>
           /\ wantsol = WantsolSum(B)
           /\ sets = <<WantsolSum(B)>>
           /\ errors = <<>>
           /\ {b \in WantsolBits : Requested(b)} = B
    /\ str = sWantsol \o <<"=", "3">> =>
         /\ Requested(1) /\ Requested(2)
         /\ ~Requested(4) /\ ~Requested(8)

C16_Witness ==
  /\ entry = "ParseOptionString" /\ pc = "done"
  /\ str = sWantsol \o <<"=", "1", "3">>
  /\ wantsol = 13
  /\ Requested(1) /\ ~Requested(2) /\ Requested(4) /\ Requested(8)


\* The branch that a token with a registered name takes, whatever the mode.
RegisteredBranch ==
  IF IsQuery(str, Scan(str, iter.from).s) THEN "query"
  ELSE IF is_keyword(iter.name) /\ iter.equal_sign THEN "keyword_argument"
  ELSE "parse"

\* The end of the value token of the last pass: the non-white-space text
\* after the '=' that follows the name.
ValueTokenEnd ==
  LET e == SkipSpaces(str, SkipName(str, TokenStart))
  IN IF CharAt(str, e) = "=" THEN SkipNonSpaces(str, SkipSpaces(str, e + 1))
     ELSE 0

\* C17: within one ParseOptionString call, skip mode is entered only by an
\* unregistered name without '=', every unregistered name met while in skip
\* mode produces no diagnostic, an unregistered name with '=' has its
\* following non-white-space value token skipped and does not change the
\* mode, and skip mode ends at the first token whose name is registered,
\* which is then processed normally; each call starts outside skip mode.
C17_SkipMode ==
  /\ (pc = "parse" /\ iter.branch = "none") => ~skip
  /\ (pc \in {"parse", "done"} /\ PassDone) =>
       /\ (skip /\ ~iter.skip0) =>
            /\ iter.branch = "unknown"
            /\ iter.name \notin Registered
            /\ ~iter.equal_sign
       /\ (iter.branch = "unknown" /\ ~iter.equal_sign) => skip
       /\ (iter.branch = "unknown" /\ iter.skip0) =>
            Len(errors) = iter.errors0
       /\ (iter.branch = "unknown" /\ ~iter.skip0) =>
            /\ Len(errors) = iter.errors0 + 1
            /\ errors[Len(errors)] =
                 [kind |-> "Unknown option", name |-> iter.name]
       /\ (iter.branch = "unknown" /\ iter.equal_sign) =>
            /\ skip = iter.skip0
            /\ pos = ValueTokenEnd
       /\ iter.branch = "unknown" <=> iter.name \notin Registered
       /\ iter.name \in Registered =>
            /\ ~skip
            /\ iter.branch = RegisteredBranch
            /\ (iter.skip0 /\ TokenText = sWantsol \o <<"=", "3">>) =>
                 /\ wantsol = 3
                 /\ Len(errors) = iter.errors0

C17_Witness ==
  /\ entry = "ParseOptionString" /\ pc = "done"
  /\ str = <<"b", "a", "r", " ", "b", "a", "z", "=", "5", " ">>
             \o sWantsol \o <<"=", "3">>
  /\ Len(errors) = 1
  /\ wantsol = 3
  /\ ~skip


\* C20: ParseOptionString terminates on every finite option string: each pass
\* of its loop advances the read position by at least one character (tokens
\* that start with '=', queries, keyword options and options whose Parse
\* fails included) and never beyond the terminating NUL, where the call
\* returns; the distance to the NUL is the variant of the loop.
C20_ParseTerminates ==
  /\ [][(pc = "parse" /\ pc' = "parse") =>
          /\ pos' >= pos + 1
          /\ pos' <= Len(str) + 1
          /\ iter'.from = pos /\ iter'.to = pos']_vars
  /\ [][(pc = "parse" /\ pc' = "done") =>
          /\ pos' >= pos
          /\ pos' = Len(str) + 1]_vars
  /\ [](pc \in {"parse", "done"} => pos \in 1..(Len(str) + 1))

\* C20 witness: the call returned after a token that starts with '=', a
\* query, a keyword option with and without an argument, or a value that
\* failed to parse.
C20_Witness ==
  /\ entry = "ParseOptionString" /\ pc = "done"
  /\ pos = Len(str) + 1
  /\ str = <<"=", "4", " ">> \o sWantsol \o <<"=", "?", " ">>
             \o sWantsol \o <<"=", "2", "x">>
  /\ Len(errors) = 2


(***************************************************************************)
(* Properties of internal::Format                                          *)
(***************************************************************************)
\* The indices where the lines of s start: 1 and the index after each new
\* line.
LineStarts(s) == {1} \cup {k + 1 : k \in {j \in 1..Len(s) : s[j] = "\n"}}

\* Where the line that holds index i of s starts.
LineStartOf(s, i) ==
  CHOOSE j \in LineStarts(s) :
    j <= i /\ \A k \in LineStarts(s) : k <= i => k <= j

\* The number of spaces a line of s starts with, j being where it starts.
LeadingBlanks(s, j) == SkipBlanks(s, j) - j

\* The indices where the words of s start.
WordStarts(s) ==
  {i \in 1..Len(s) :
     /\ s[i] \notin {" ", "\n"}
     /\ i = 1 \/ s[i - 1] \in {" ", "\n"}}

\* Each word of the text together with the indentation of its line is at
\* most 78 characters.
WordsFit ==
  \A i \in WordStarts(text) :
    start_indent + LeadingBlanks(text, LineStartOf(text, i))
      + (SkipWord(text, i) - i) <= MAX_LINE_LENGTH

\* The indentation of each line of the text is at most 78 characters.
IndentsFit ==
  \A j \in LineStarts(text) :
    start_indent + LeadingBlanks(text, j) <= MAX_LINE_LENGTH

\* Every line of the output is at most 78 characters long.
LinesFit ==
  LET Ends == {0} \cup {k \in 1..Len(os) : os[k] = "\n"} \cup {Len(os) + 1}
  IN \A k \in Ends :
       k = Len(os) + 1
         \/ \E j \in Ends : j > k /\ j <= k + MAX_LINE_LENGTH + 1

\* Each output line started by wrapping starts, after a new line, with as
\* many spaces as the first word of its input line has before it in the
\* output, which is the indent plus the spaces that line starts with.
ContinuationsAligned ==
  \A m \in DOMAIN starts :
    starts[m].wrapped =>
      LET K == start_indent + LeadingBlanks(text, starts[m].line)
      IN /\ starts[m].at > 1 /\ os[starts[m].at - 1] = "\n"
         /\ LeadingBlanks(os, starts[m].at) = K
         /\ \A n \in DOMAIN starts :
              (~starts[n].wrapped /\ starts[n].line = starts[m].line) =>
                LeadingBlanks(os, starts[n].at) = K

\* C19 as stated: for every input string and starting indent such that each
\* word together with the indentation of its line is at most 78 characters,
\* every line of the output of internal::Format is at most 78 characters
\* long, and each continuation line produced by wrapping starts with the
\* same indentation as the first word of its input line.
C19_WordsFitImpliesLinesFit ==
  (fpc = "done" /\ WordsFit) => (LinesFit /\ ContinuationsAligned)

\* C19, amended: the same, for every input string and starting indent such
\* that moreover the indentation of each input line, a line without a word
\* included, is at most 78 characters.
C19_FittingTextIsWrapped ==
  (fpc = "done" /\ WordsFit /\ IndentsFit) =>
    (LinesFit /\ ContinuationsAligned)

\* C19 witness: a text that fits was wrapped, the continuation line indented
\* like the first word of its line.
C19_Witness ==
  /\ fpc = "done" /\ WordsFit /\ IndentsFit
  /\ text = Blanks(1) \o Word(38) \o Blanks(1) \o Word(39)
  /\ start_indent = 6
  /\ os = Blanks(7) \o Word(38) \o <<"\n">>
            \o Blanks(7) \o Word(39) \o <<"\n">>

=============================================================================
